---- MODULE Spec2Model ----
(***************************************************************************)
(* Pakyas Terraform provider: the HTTP transport (Client.doRequest with    *)
(* its retry loop), the resource accessors built on it (Create/Get/        *)
(* Update/Delete of Project and Check) and the reconciler handlers         *)
(* (Create/Read/Update/Delete of ProjectResource and CheckResource).       *)
(*                                                                         *)
(* One reconciler operation runs at a time.  A logical request (one call   *)
(* of doRequest) is a small state machine:                                 *)
(*    send -> inflight -> (returned | wait -> send -> ...)                 *)
(* The remote service and the network are the environment: every attempt   *)
(* may end with any status, any body, or a network-level failure.          *)
(*                                                                         *)
(* Spec and FairSpec follow the control flow of the transport and of the   *)
(* handlers attempt by attempt.  DataSpec follows the field values: plans, *)
(* request bodies, the remote resource and the tracked state, with a call  *)
(* of doRequest taken as what it returns; there provider processes end and *)
(* client.New builds the client of the next one from GET /api/v1/me.       *)
(* ConcSpec interleaves the steps of concurrent calls of doRequest.        *)
(* PostSpec follows the attempts of one POST against a remote service that *)
(* counts what it creates, and MeSpec constructs clients from any answer   *)
(* of /api/v1/me.                                                          *)
(* TagSpec applies normalizeTags to every tag list of a bounded set and    *)
(* NormSpec both normalizeTags and normalizeDescription.                   *)
(***************************************************************************)
EXTENDS Integers, FiniteSets, Sequences, TLC

VARIABLES
    op,         \* the reconciler operation in progress or last finished
    phase,      \* "idle" | "write" (POST/PUT/DELETE running) | "get" | "done" | "imported"
    method,     \* verb of the logical request in progress
    attempt,    \* doRequest's loop variable
    rpc,        \* doRequest's position: "none" | "send" | "inflight" | "wait" | "returned"
    lastErr,    \* doRequest's lastErr
    delay,      \* the delay being waited out (0 outside the wait)
    ret,        \* doRequest's return value once returned
    result,     \* the result target: "zero" or "parsed"
    cancelled,  \* ctx.Done() is closed
    nAttempts,  \* calls of httpClient.Do made by the current logical request
    nWaits,     \* backoff waits completed by the current logical request
    sent,       \* calls of httpClient.Do per verb in the current operation
    lastResp,   \* outcome of the most recent attempt
    accRet,     \* error returned by the accessor to the handler
    tracked,    \* tracked state per resource kind: "absent" | "live"
    diag,       \* error diagnostic reported by the handler
    plan,       \* req.Plan: the desired configuration handed to Create / Update
    prior,      \* req.State: the tracked state handed to the handler
    model,      \* resp.State: the tracked state of the resource, field by field
    remote,     \* the resource as the remote service stores it
    reqBody,    \* JSON body of the last POST / PUT passed to doRequest
    got,        \* the *Project / *Check the accessor returned
    calls,      \* the doRequest calls of the current operation, in order
    client,     \* the *Client of this provider process: nil, or its cached context
    tagsIn,     \* argument of normalizeTags
    tagsOut,    \* value normalizeTags returned
    applied,    \* how many times normalizeTags has been applied to tagsIn
    descIn,     \* argument of normalizeDescription
    descOut,    \* value normalizeDescription returned
    descApplied, \* how many times normalizeDescription has been applied to descIn
    reqs,       \* the locals of doRequest in each of the concurrent callers
    server      \* the remote service as a POST meets it: what it has created

\* State of the transport and of the handlers' control flow.
ctlVars == << op, phase, method, attempt, rpc, lastErr, delay, ret, result,
              cancelled, nAttempts, nWaits, sent, lastResp, accRet, tracked, diag >>

\* The field values the handlers and accessors work on.
dataVars == << plan, prior, model, remote, reqBody, got, calls, client >>

\* normalizeTags and normalizeDescription applied on their own.
fnVars == << tagsIn, tagsOut, applied, descIn, descOut, descApplied, reqs,
            server >>

vars == << op, phase, method, attempt, rpc, lastErr, delay, ret, result,
           cancelled, nAttempts, nWaits, sent, lastResp, accRet, tracked, diag,
           plan, prior, model, remote, reqBody, got, calls, client,
           tagsIn, tagsOut, applied, descIn, descOut, descApplied, reqs,
           server >>

(***************************************************************************)
(* Bounds and program constants                                            *)
(***************************************************************************)
\* Clock resolution: ticks per second (the code counts nanoseconds).
TicksPerSecond == 2

MaxRetries == 5

BaseRetryDelay == 1 * TicksPerSecond

\* DefaultPingURLBase, as the sequence of its segments.
DefaultPingURLBase == << "https://ping.pakyas.com" >>

Kinds == {"project", "check"}

Methods == {"GET", "POST", "PUT", "DELETE"}

\* Statuses the remote service answers with in the model.
Statuses == {200, 204, 400, 401, 403, 404, 409, 422, 429, 500, 503}

\* A response body: absent, valid JSON for the target, or not parseable.
Bodies == {"empty", "json", "garbage"}

\* What one call of httpClient.Do followed by io.ReadAll can end with.
Outcomes ==
    [type : {"resp"}, status : Statuses, body : Bodies]
    \cup {[type |-> "neterr", status |-> 0, body |-> "empty"],
          [type |-> "readerr", status |-> 0, body |-> "empty"]}

\* httpClient.Do failing because the context is done.
CtxOutcome == [type |-> "ctxerr", status |-> 0, body |-> "empty"]

NoResp == [type |-> "none", status |-> 0, body |-> "empty"]

NoOp == [kind |-> "none", name |-> "none"]

(***************************************************************************)
(* Errors                                                                  *)
(***************************************************************************)
NoErr == [type |-> "nil", status |-> 0, kind |-> "none", cause |-> "none", wraps |-> {}]

APIError(s) ==
    [type |-> "api", status |-> s, kind |-> "none", cause |-> "none", wraps |-> {}]

\* err of httpClient.Do; cause "ctx" when the context ended the request.
NetErr(c) ==
    [type |-> "net", status |-> 0, kind |-> "none", cause |-> c, wraps |-> {}]

\* "failed to read response body: %w"
ReadErr ==
    [type |-> "read", status |-> 0, kind |-> "none", cause |-> "io", wraps |-> {}]

\* ctx.Err()
CtxErr ==
    [type |-> "ctx", status |-> 0, kind |-> "none", cause |-> "none", wraps |-> {}]

\* "failed to parse response: %w"
ParseErr ==
    [type |-> "parse", status |-> 0, kind |-> "none", cause |-> "none", wraps |-> {}]

\* "max retries exceeded: %w" wrapping e
MaxRetriesErr(e) ==
    [type |-> "maxretries", status |-> 0, kind |-> "none", cause |-> "none",
     wraps |-> {e}]

\* "<kind> already exists, use `terraform import` to manage it"
ConflictError(resourceType) ==
    [type |-> "conflict", status |-> 0, kind |-> resourceType, cause |-> "none",
     wraps |-> {}]

\* errors.As(err, &apiErr): the APIError in err's chain, if any.
AsAPIError(err) ==
    IF err.type = "api" THEN err
    ELSE IF \E w \in err.wraps : w.type = "api"
           THEN CHOOSE w \in err.wraps : w.type = "api"
           ELSE NoErr

IsNotFound_Never(err) == FALSE

IsNotFound(err) ==
    AsAPIError(err).type = "api" /\ AsAPIError(err).status = 404

IsConflict_Never(err) == FALSE

IsConflict(err) ==
    AsAPIError(err).type = "api" /\ AsAPIError(err).status = 409

IsRetryable_AnyStatus(err) == AsAPIError(err).type = "api"

IsRetryable(err) ==
    /\ AsAPIError(err).type = "api"
    /\ \/ AsAPIError(err).status = 429
       \/ AsAPIError(err).status >= 500

(***************************************************************************)
(* doRequest                                                               *)
(***************************************************************************)
\* result != nil at the call sites: GET and POST pass a target, PUT and
\* DELETE pass nil.
HasResult(m) == m \in {"GET", "POST"}

Backoff_Doubled(i) == (2 ^ i) * BaseRetryDelay

\* time.Duration(math.Pow(2, float64(attempt-1))) * BaseRetryDelay
Backoff(i) == (2 ^ (i - 1)) * BaseRetryDelay

\* rand.Int63n(int64(delay / 2)): a value in [0, delay/2)
Jitter(i) == 0 .. ((Backoff(i) \div 2) - 1)

LoopContinues_OneMore(a) == a <= MaxRetries + 1

\* the loop condition attempt <= MaxRetries
LoopContinues(a) == a <= MaxRetries

\* the return after the loop
ExhaustedError(e) == MaxRetriesErr(e)

\* Entry of doRequest, up to the first http.Do.
CallDoRequest(m) ==
    /\ method' = m
    /\ attempt' = 0
    /\ rpc' = "send"
    /\ lastErr' = NoErr
    /\ delay' = 0
    /\ ret' = NoErr
    /\ result' = "zero"
    /\ nAttempts' = 0
    /\ nWaits' = 0
    /\ lastResp' = NoResp

\* doRequest's locals once the caller has taken its return value.
LeaveDoRequest ==
    /\ rpc' = "none"
    /\ attempt' = 0
    /\ lastErr' = NoErr
    /\ delay' = 0
    /\ ret' = NoErr
    /\ UNCHANGED << method, result, nAttempts, nWaits, lastResp >>

\* return e
Return(e, r) ==
    /\ rpc' = "returned"
    /\ ret' = e
    /\ result' = r
    /\ delay' = 0
    /\ UNCHANGED << attempt, lastErr >>

Retry_KeepsFirstError(e) ==
    /\ lastErr' = IF lastErr = NoErr THEN e ELSE lastErr
    /\ attempt' = attempt + 1
    /\ result' = result
    /\ IF LoopContinues(attempt + 1)
         THEN /\ rpc' = "wait"
              /\ \E j \in Jitter(attempt + 1) : delay' = Backoff(attempt + 1) + j
              /\ ret' = ret
         ELSE /\ rpc' = "returned"
              /\ ret' = ExhaustedError(lastErr')
              /\ delay' = 0

\* lastErr = e; continue: the next iteration computes its delay and waits,
\* or the loop ends and the wrapped lastErr is returned.
Retry(e) ==
    /\ lastErr' = e
    /\ attempt' = attempt + 1
    /\ result' = result
    /\ IF LoopContinues(attempt + 1)
         THEN /\ rpc' = "wait"
              /\ \E j \in Jitter(attempt + 1) : delay' = Backoff(attempt + 1) + j
              /\ ret' = ret
         ELSE /\ rpc' = "returned"
              /\ ret' = ExhaustedError(e)
              /\ delay' = 0

HandleOutcome_RetryLast(o) ==
    CASE o.type \in {"neterr", "ctxerr"} ->
            Retry(NetErr(IF o.type = "ctxerr" THEN "ctx" ELSE "io"))
      [] o.type = "readerr" -> Retry(ReadErr)
      [] o.type = "resp" /\ o.status >= 400 ->
            IF IsRetryable(APIError(o.status))
              THEN Retry(APIError(o.status))
              ELSE Return(APIError(o.status), result)
      [] OTHER ->
            IF HasResult(method) /\ o.body # "empty"
              THEN IF o.body = "garbage"
                     THEN Return(ParseErr, result)
                     ELSE Return(NoErr, "parsed")
              ELSE Return(NoErr, result)

HandleOutcome_ParseEmpty(o) ==
    CASE o.type \in {"neterr", "ctxerr"} ->
            Retry(NetErr(IF o.type = "ctxerr" THEN "ctx" ELSE "io"))
      [] o.type = "readerr" -> Retry(ReadErr)
      [] o.type = "resp" /\ o.status >= 400 ->
            IF IsRetryable(APIError(o.status)) /\ attempt < MaxRetries
              THEN Retry(APIError(o.status))
              ELSE Return(APIError(o.status), result)
      [] OTHER ->
            IF HasResult(method)
              THEN IF o.body # "json"
                     THEN Return(ParseErr, result)
                     ELSE Return(NoErr, "parsed")
              ELSE Return(NoErr, result)

\* The body of the loop after http.Do returned.
HandleOutcome(o) ==
    CASE o.type \in {"neterr", "ctxerr"} ->
            Retry(NetErr(IF o.type = "ctxerr" THEN "ctx" ELSE "io"))
      [] o.type = "readerr" -> Retry(ReadErr)
      [] o.type = "resp" /\ o.status >= 400 ->
            IF IsRetryable(APIError(o.status)) /\ attempt < MaxRetries
              THEN Retry(APIError(o.status))
              ELSE Return(APIError(o.status), result)
      [] OTHER ->
            IF HasResult(method) /\ o.body # "empty"
              THEN IF o.body = "garbage"
                     THEN Return(ParseErr, result)
                     ELSE Return(NoErr, "parsed")
              ELSE Return(NoErr, result)

\* http.NewRequestWithContext and httpClient.Do are called.  With the
\* context already done, Do fails at once; otherwise the request is in
\* flight.
Send ==
    /\ rpc = "send"
    /\ nAttempts' = nAttempts + 1
    /\ sent' = [sent EXCEPT ![method] = @ + 1]
    /\ IF cancelled
         THEN /\ lastResp' = CtxOutcome
              /\ HandleOutcome(CtxOutcome)
         ELSE /\ rpc' = "inflight"
              /\ UNCHANGED << attempt, lastErr, delay, ret, result, lastResp >>
    /\ UNCHANGED << op, phase, method, cancelled, nWaits, accRet, tracked, diag >>
    /\ UNCHANGED << dataVars, fnVars >>

\* httpClient.Do and io.ReadAll return.  A context cancelled while the
\* request is in flight may end it, or the response may still arrive.
Receive ==
    /\ rpc = "inflight"
    /\ \E o \in Outcomes \cup (IF cancelled THEN {CtxOutcome} ELSE {}) :
          /\ lastResp' = o
          /\ HandleOutcome(o)
    /\ UNCHANGED << op, phase, method, cancelled, nAttempts, nWaits, sent,
                    accRet, tracked, diag >>
    /\ UNCHANGED << dataVars, fnVars >>

TimerFires_IgnoresCancel ==
    /\ rpc = "wait"
    /\ rpc' = "send"
    /\ delay' = 0
    /\ nWaits' = nWaits + 1
    /\ UNCHANGED << op, phase, method, attempt, lastErr, ret, result, cancelled,
                    nAttempts, sent, lastResp, accRet, tracked, diag >>
    /\ UNCHANGED << dataVars, fnVars >>

\* case <-time.After(delay): the wait is over and the attempt follows.  The
\* wait lasts at least a second; a context cancelled during it is the only
\* ready case of the select.
TimerFires ==
    /\ rpc = "wait"
    /\ ~cancelled
    /\ rpc' = "send"
    /\ delay' = 0
    /\ nWaits' = nWaits + 1
    /\ UNCHANGED << op, phase, method, attempt, lastErr, ret, result, cancelled,
                    nAttempts, sent, lastResp, accRet, tracked, diag >>
    /\ UNCHANGED << dataVars, fnVars >>

CtxDone_WrapsLastErr ==
    /\ rpc = "wait"
    /\ cancelled
    /\ rpc' = "returned"
    /\ ret' = ExhaustedError(lastErr)
    /\ delay' = 0
    /\ UNCHANGED << op, phase, method, attempt, lastErr, result, cancelled,
                    nAttempts, nWaits, sent, lastResp, accRet, tracked, diag >>
    /\ UNCHANGED << dataVars, fnVars >>

\* case <-ctx.Done(): return ctx.Err()
CtxDone ==
    /\ rpc = "wait"
    /\ cancelled
    /\ rpc' = "returned"
    /\ ret' = CtxErr
    /\ delay' = 0
    /\ UNCHANGED << op, phase, method, attempt, lastErr, result, cancelled,
                    nAttempts, nWaits, sent, lastResp, accRet, tracked, diag >>
    /\ UNCHANGED << dataVars, fnVars >>

\* The caller cancels the operation's context while a request is running.
Cancel ==
    /\ rpc \in {"send", "inflight", "wait"}
    /\ ~cancelled
    /\ cancelled' = TRUE
    /\ UNCHANGED << op, phase, method, attempt, rpc, lastErr, delay, ret, result,
                    nAttempts, nWaits, sent, lastResp, accRet, tracked, diag >>
    /\ UNCHANGED << dataVars, fnVars >>

(***************************************************************************)
(* Accessors and reconciler handlers.  A handler runs from the host's      *)
(* call to its return; it suspends only inside doRequest.  The host calls  *)
(* Create for a resource it does not track and Read, Update and Delete     *)
(* for one it tracks.                                                      *)
(***************************************************************************)
NoDiag == [summary |-> "none", kind |-> "none", err |-> NoErr]

\* resp.Diagnostics.AddError(summary, detail + err.Error())
Diag(summary, k, e) == [summary |-> summary, kind |-> k, err |-> e]

NoneSent == [m \in Methods |-> 0]

\* The host calls a handler with a fresh context.
BeginOp(k, name) ==
    /\ phase \in {"idle", "done"}
    /\ op' = [kind |-> k, name |-> name]
    /\ cancelled' = FALSE
    /\ sent' = NoneSent
    /\ accRet' = NoErr
    /\ diag' = NoDiag
    /\ UNCHANGED << tracked, dataVars, fnVars >>

\* The handler returns to the host.
EndOp(e, d, t) ==
    /\ phase' = "done"
    /\ accRet' = e
    /\ diag' = d
    /\ tracked' = t
    /\ LeaveDoRequest
    /\ UNCHANGED << op, cancelled, sent, dataVars, fnVars >>

\* Create, up to the POST of CreateProject / CreateCheck.
Create(k) ==
    /\ tracked[k] = "absent"
    /\ BeginOp(k, "Create")
    /\ phase' = "write"
    /\ CallDoRequest("POST")

\* CreateProject / CreateCheck after the POST returned: the conflict
\* translation, or the read-back GetProject / GetCheck.
CreateAfterPost(k) ==
    /\ op = [kind |-> k, name |-> "Create"]
    /\ phase = "write"
    /\ rpc = "returned"
    /\ IF ret # NoErr
         THEN LET e == IF IsConflict(ret) THEN ConflictError(k) ELSE ret
              IN  EndOp(e, Diag("Error Creating", k, e), tracked)
         ELSE /\ phase' = "get"
              /\ CallDoRequest("GET")
              /\ UNCHANGED << op, cancelled, sent, accRet, tracked, diag, dataVars, fnVars >>

\* Create after the read-back GET returned: the error diagnostic, or the
\* mapped state is set.
CreateAfterGet(k) ==
    /\ op = [kind |-> k, name |-> "Create"]
    /\ phase = "get"
    /\ rpc = "returned"
    /\ IF ret # NoErr
         THEN EndOp(ret, Diag("Error Creating", k, ret), tracked)
         ELSE EndOp(NoErr, NoDiag, [tracked EXCEPT ![k] = "live"])

\* Read, up to the GET of GetProject / GetCheck.
Read(k) ==
    /\ tracked[k] = "live"
    /\ BeginOp(k, "Read")
    /\ phase' = "get"
    /\ CallDoRequest("GET")

ReadAfterGet_RemovesOnClientError(k) ==
    /\ op = [kind |-> k, name |-> "Read"]
    /\ phase = "get"
    /\ rpc = "returned"
    /\ IF ret # NoErr
         THEN IF AsAPIError(ret).type = "api" /\ AsAPIError(ret).status < 500
                THEN EndOp(ret, NoDiag, [tracked EXCEPT ![k] = "absent"])
                ELSE EndOp(ret, Diag("Error Reading", k, ret), tracked)
         ELSE EndOp(NoErr, NoDiag, [tracked EXCEPT ![k] = "live"])

\* Read after the GET returned.
ReadAfterGet(k) ==
    /\ op = [kind |-> k, name |-> "Read"]
    /\ phase = "get"
    /\ rpc = "returned"
    /\ IF ret # NoErr
         THEN IF IsNotFound(ret)
                THEN EndOp(ret, NoDiag, [tracked EXCEPT ![k] = "absent"])
                ELSE EndOp(ret, Diag("Error Reading", k, ret), tracked)
         ELSE EndOp(NoErr, NoDiag, [tracked EXCEPT ![k] = "live"])

\* Update, up to the PUT of UpdateProject / UpdateCheck.
Update(k) ==
    /\ tracked[k] = "live"
    /\ BeginOp(k, "Update")
    /\ phase' = "write"
    /\ CallDoRequest("PUT")

UpdateAfterPut_TranslatesConflict(k) ==
    /\ op = [kind |-> k, name |-> "Update"]
    /\ phase = "write"
    /\ rpc = "returned"
    /\ IF ret # NoErr
         THEN LET e == IF IsConflict(ret) THEN ConflictError(k) ELSE ret
              IN  EndOp(e, Diag("Error Updating", k, e), tracked)
         ELSE /\ phase' = "get"
              /\ CallDoRequest("GET")
              /\ UNCHANGED << op, cancelled, sent, accRet, tracked, diag, dataVars, fnVars >>

UpdateAfterPut_RemovesOnNotFound(k) ==
    /\ op = [kind |-> k, name |-> "Update"]
    /\ phase = "write"
    /\ rpc = "returned"
    /\ IF ret # NoErr
         THEN IF IsNotFound(ret)
                THEN EndOp(ret, NoDiag, [tracked EXCEPT ![k] = "absent"])
                ELSE EndOp(ret, Diag("Error Updating", k, ret), tracked)
         ELSE /\ phase' = "get"
              /\ CallDoRequest("GET")
              /\ UNCHANGED << op, cancelled, sent, accRet, tracked, diag, dataVars, fnVars >>

\* UpdateProject / UpdateCheck after the PUT returned.
UpdateAfterPut(k) ==
    /\ op = [kind |-> k, name |-> "Update"]
    /\ phase = "write"
    /\ rpc = "returned"
    /\ IF ret # NoErr
         THEN EndOp(ret, Diag("Error Updating", k, ret), tracked)
         ELSE /\ phase' = "get"
              /\ CallDoRequest("GET")
              /\ UNCHANGED << op, cancelled, sent, accRet, tracked, diag, dataVars, fnVars >>

\* Update after the read-back GET returned.
UpdateAfterGet(k) ==
    /\ op = [kind |-> k, name |-> "Update"]
    /\ phase = "get"
    /\ rpc = "returned"
    /\ IF ret # NoErr
         THEN EndOp(ret, Diag("Error Updating", k, ret), tracked)
         ELSE EndOp(NoErr, NoDiag, [tracked EXCEPT ![k] = "live"])

\* Delete, up to the DELETE of DeleteProject / DeleteCheck.
Delete(k) ==
    /\ tracked[k] = "live"
    /\ BeginOp(k, "Delete")
    /\ phase' = "write"
    /\ CallDoRequest("DELETE")

DeleteAfterDelete_NotFoundIsError(k) ==
    /\ op = [kind |-> k, name |-> "Delete"]
    /\ phase = "write"
    /\ rpc = "returned"
    /\ IF ret # NoErr
         THEN EndOp(ret, Diag("Error Deleting", k, ret), tracked)
         ELSE EndOp(NoErr, NoDiag, [tracked EXCEPT ![k] = "absent"])

DeleteAfterDelete_AccessorSwallows(k) ==
    /\ op = [kind |-> k, name |-> "Delete"]
    /\ phase = "write"
    /\ rpc = "returned"
    /\ IF ret # NoErr /\ ~IsNotFound(ret)
         THEN EndOp(ret, Diag("Error Deleting", k, ret), tracked)
         ELSE EndOp(NoErr, NoDiag, [tracked EXCEPT ![k] = "absent"])

\* Delete after DeleteProject / DeleteCheck returned (the accessor hands
\* doRequest's error on as it is).  The host removes the resource from
\* tracked state when Delete returns without an error diagnostic.
DeleteAfterDelete(k) ==
    /\ op = [kind |-> k, name |-> "Delete"]
    /\ phase = "write"
    /\ rpc = "returned"
    /\ IF ret # NoErr
         THEN IF IsNotFound(ret)
                THEN EndOp(ret, NoDiag, [tracked EXCEPT ![k] = "absent"])
                ELSE EndOp(ret, Diag("Error Deleting", k, ret), tracked)
         ELSE EndOp(NoErr, NoDiag, [tracked EXCEPT ![k] = "absent"])

(***************************************************************************)
(* Field values.  A Go pointer or slice is Nil or a one-element tuple      *)
(* holding what it points to (a slice: its elements in order), so a nil    *)
(* slice and an empty one differ.  A framework value (types.String,        *)
(* types.Int64, types.Bool, types.Set) is null or a one-element tuple      *)
(* holding the value (a set: its elements in the order they are kept).     *)
(* Tag i stands for the i-th of MaxTag strings in sort.Strings' order.      *)
(***************************************************************************)
MaxTag == 3

\* Longest tag list handed to normalizeTags on its own.
MaxLen == 3

\* Tags a configuration declares are among the first MaxDeclared ones.
MaxDeclared == 2

TagNames == 1 .. MaxTag

Names == {"n1", "n2"}

\* Description strings: the empty one and a non-empty one.
Descriptions == {"", "d1"}

Periods == {60, 120}

Graces == {0, 30}

Nil == << >>

Ptr(v) == << v >>

Deref(p) == p[1]

Slice(s) == << s >>

Elems(t) == t[1]

\* len(tags)
SliceLen(t) == IF t = Nil THEN 0 ELSE Len(Elems(t))

Range(s) == { s[i] : i \in DOMAIN s }

IsSorted(s) == \A i \in 1 .. (Len(s) - 1) : s[i] <= s[i + 1]

\* Sequences over S of length at most n.
SeqsUpTo(S, n) == UNION { [1 .. l -> S] : l \in 0 .. n }

NoDuplicates(s) == \A i, j \in DOMAIN s : i # j => s[i] # s[j]

RECURSIVE InsertSorted(_, _)
InsertSorted(x, s) ==
    IF s = << >> THEN << x >>
    ELSE IF x <= Head(s) THEN << x >> \o s
    ELSE << Head(s) >> \o InsertSorted(x, Tail(s))

\* sort.Strings: the elements in increasing order, duplicates kept.
RECURSIVE SortStrings(_)
SortStrings(s) ==
    IF s = << >> THEN << >> ELSE InsertSorted(Head(s), SortStrings(Tail(s)))

normalizeDescription_KeepsEmpty(desc) == desc

\* normalizeDescription: a pointer to the empty string becomes nil.
normalizeDescription(desc) ==
    IF desc # Nil /\ Deref(desc) = "" THEN Nil ELSE desc

normalizeTags_NoSort(tags) ==
    IF tags = Nil THEN Slice(<< >>) ELSE tags

normalizeTags(tags) ==
    IF tags = Nil THEN Slice(<< >>) ELSE Slice(SortStrings(Elems(tags)))

\* Framework values.
Null == << >>

StringValue(s) == << s >>

Int64Value(i) == << i >>

BoolValue(b) == << b >>

SetValueMust(elems) == << elems >>

IsNull(v) == v = Null

ValueString(v) == IF IsNull(v) THEN "" ELSE v[1]

ValueInt64(v) == IF IsNull(v) THEN 0 ELSE v[1]

ValueBool(v) == IF IsNull(v) THEN FALSE ELSE v[1]

\* types.String / Int64 / Bool .Equal
Equal(a, b) == a = b

\* types.Set.Equal: both null, or the same elements in any order.
SetEqual(a, b) ==
    IF IsNull(a) \/ IsNull(b)
      THEN IsNull(a) /\ IsNull(b)
      ELSE Len(a[1]) = Len(b[1]) /\ Range(a[1]) = Range(b[1])

\* Set.ElementsAs(ctx, &tags, false): a non-nil slice of the elements.
ElementsAs(v) == Slice(v[1])

(***************************************************************************)
(* JSON request bodies: the object encoding/json produces, a function from *)
(* the keys present to their values.                                       *)
(***************************************************************************)
EmptyObject == [key \in {} |-> Nil]

\* A struct field without omitempty.
Always(key, value) == key :> value

\* A struct field tagged omitempty: left out when empty is true.
OmitEmpty(key, empty, value) == IF empty THEN EmptyObject ELSE key :> value

Has(body, key) == key \in DOMAIN body

\* json.Marshal(CreateProjectRequest)
MarshalCreateProjectRequest(req) ==
    Always("org_id", req.OrgID)
    @@ Always("name", req.Name)
    @@ OmitEmpty("description", req.Description = Nil, Deref(req.Description))

\* json.Marshal(UpdateProjectRequest)
MarshalUpdateProjectRequest(req) ==
    OmitEmpty("name", req.Name = Nil, Deref(req.Name))
    @@ OmitEmpty("description", req.Description = Nil, Deref(req.Description))

\* json.Marshal(CreateCheckRequest)
MarshalCreateCheckRequest(req) ==
    Always("project_id", req.ProjectID)
    @@ Always("name", req.Name)
    @@ Always("slug", req.Slug)
    @@ Always("period_seconds", req.PeriodSeconds)
    @@ OmitEmpty("grace_seconds", req.GraceSeconds = 0, req.GraceSeconds)
    @@ OmitEmpty("description", req.Description = Nil, Deref(req.Description))
    @@ OmitEmpty("tags", SliceLen(req.Tags) = 0, Elems(req.Tags))
    @@ OmitEmpty("paused", req.Paused = FALSE, req.Paused)

MarshalUpdateCheckRequest_KeepsEmptyTags(req) ==
    OmitEmpty("name", req.Name = Nil, Deref(req.Name))
    @@ OmitEmpty("period_seconds", req.PeriodSeconds = Nil, Deref(req.PeriodSeconds))
    @@ OmitEmpty("grace_seconds", req.GraceSeconds = Nil, Deref(req.GraceSeconds))
    @@ OmitEmpty("description", req.Description = Nil, Deref(req.Description))
    @@ OmitEmpty("tags", req.Tags = Nil, Elems(req.Tags))
    @@ OmitEmpty("paused", req.Paused = Nil, Deref(req.Paused))

\* json.Marshal(UpdateCheckRequest)
MarshalUpdateCheckRequest(req) ==
    OmitEmpty("name", req.Name = Nil, Deref(req.Name))
    @@ OmitEmpty("period_seconds", req.PeriodSeconds = Nil, Deref(req.PeriodSeconds))
    @@ OmitEmpty("grace_seconds", req.GraceSeconds = Nil, Deref(req.GraceSeconds))
    @@ OmitEmpty("description", req.Description = Nil, Deref(req.Description))
    @@ OmitEmpty("tags", SliceLen(req.Tags) = 0, Elems(req.Tags))
    @@ OmitEmpty("paused", req.Paused = Nil, Deref(req.Paused))

(***************************************************************************)
(* Desired configurations, the handlers' request structs and the           *)
(* accessors' request bodies.                                              *)
(***************************************************************************)
\* Neither a plan, a state, a resource nor a returned struct.
None == [none |-> TRUE]

\* Client.OrgID(): the organization id cached from /api/v1/me.
OrgID == client.orgID

\* Client.PingURLBase(): the ping URL base cached from /api/v1/me.
PingURLBase == client.pingURLBase

\* Plans of pakyas_project: name is required, description optional.
ProjectPlans ==
    [ name : { StringValue(n) : n \in Names },
      description : {Null} \cup { StringValue(d) : d \in Descriptions } ]

\* The tag sets a configuration can declare: none, or any list without
\* duplicates, in any order.
DeclaredTags ==
    {Null} \cup { SetValueMust(s) :
                    s \in { t \in SeqsUpTo(1 .. MaxDeclared, MaxDeclared) :
                              NoDuplicates(t) } }

ProjectIDs == {"p1", "p2"}

Slugs == {"s1", "s2"}

\* A plan of pakyas_check with the required attributes set and the optional
\* ones left out: grace_seconds and paused carry their schema defaults.
BasePlan ==
    [ project_id |-> StringValue("p1"), name |-> StringValue("n1"),
      slug |-> StringValue("s1"), period_seconds |-> Int64Value(60),
      grace_seconds |-> Int64Value(0), description |-> Null, tags |-> Null,
      paused |-> BoolValue(FALSE) ]

\* The attributes a plan varies together; the others are as in BasePlan.
\* paused is in every group, so that every tracked check can be updated.
AttributeGroups ==
    { {"name", "period_seconds", "grace_seconds", "paused"},
      {"tags", "paused"},
      {"project_id", "slug", "description", "paused"} }

\* Plans of pakyas_check: every combination of values within one group of
\* attributes.  An Update meets every pair of them as state and plan.
CheckPlans ==
    { p \in [ project_id : { StringValue(i) : i \in ProjectIDs },
              name : { StringValue(n) : n \in Names },
              slug : { StringValue(i) : i \in Slugs },
              period_seconds : { Int64Value(i) : i \in Periods },
              grace_seconds : { Int64Value(i) : i \in Graces },
              description : {Null} \cup { StringValue(d) : d \in Descriptions },
              tags : DeclaredTags,
              paused : { BoolValue(b) : b \in BOOLEAN } ] :
        \E g \in AttributeGroups :
            \A f \in (DOMAIN BasePlan) \ g : p[f] = BasePlan[f] }

Plans(k) == IF k = "project" THEN ProjectPlans ELSE CheckPlans

\* ProjectResource.Create: the description argument of CreateProject.
ProjectDescription(data) ==
    IF ~IsNull(data.description)
      THEN Ptr(ValueString(data.description))
      ELSE Nil

\* CheckResource.Create: the CreateCheckRequest it builds.
CreateCheckRequest(data) ==
    [ ProjectID |-> ValueString(data.project_id),
      Name |-> ValueString(data.name),
      Slug |-> ValueString(data.slug),
      PeriodSeconds |-> ValueInt64(data.period_seconds),
      GraceSeconds |-> ValueInt64(data.grace_seconds),
      Paused |-> ValueBool(data.paused),
      Description |-> IF ~IsNull(data.description)
                        THEN Ptr(ValueString(data.description))
                        ELSE Nil,
      Tags |-> IF ~IsNull(data.tags) THEN ElementsAs(data.tags) ELSE Nil ]

\* The pointer Update sets for a field: nil unless the plan differs.
Changed(desired, previous, value) ==
    IF ~Equal(desired, previous) THEN Ptr(value) ELSE Nil

\* Update's description pointer: the empty string when the plan is null.
ChangedDescription(data, state) ==
    IF ~Equal(data.description, state.description)
      THEN IF IsNull(data.description)
             THEN Ptr("")
             ELSE Ptr(ValueString(data.description))
      ELSE Nil

\* ProjectResource.Update: the name and description arguments of
\* UpdateProject.
UpdateProjectArgs(data, state) ==
    [ Name |-> Changed(data.name, state.name, ValueString(data.name)),
      Description |-> ChangedDescription(data, state) ]

\* CheckResource.Update: the UpdateCheckRequest it builds.
UpdateCheckRequest(data, state) ==
    [ Name |-> Changed(data.name, state.name, ValueString(data.name)),
      PeriodSeconds |-> Changed(data.period_seconds, state.period_seconds,
                                ValueInt64(data.period_seconds)),
      GraceSeconds |-> Changed(data.grace_seconds, state.grace_seconds,
                               ValueInt64(data.grace_seconds)),
      Description |-> ChangedDescription(data, state),
      Tags |-> IF ~SetEqual(data.tags, state.tags)
                 THEN IF ~IsNull(data.tags) THEN ElementsAs(data.tags) ELSE Nil
                 ELSE Nil,
      Paused |-> Changed(data.paused, state.paused, ValueBool(data.paused)) ]

CreateProjectBody_KeepsEmpty(name, description) ==
    MarshalCreateProjectRequest(
        [ OrgID |-> OrgID, Name |-> name, Description |-> description ])

\* CreateProject: the body it hands to doRequest.
CreateProjectBody(name, description) ==
    MarshalCreateProjectRequest(
        [ OrgID |-> OrgID, Name |-> name,
          Description |-> normalizeDescription(description) ])

\* UpdateProject: the body it hands to doRequest.
UpdateProjectBody(args) ==
    MarshalUpdateProjectRequest(
        [ Name |-> args.Name,
          Description |-> normalizeDescription(args.Description) ])

\* CreateCheck: the body it hands to doRequest.
CreateCheckBody(req) ==
    MarshalCreateCheckRequest(
        [ req EXCEPT !.Description = normalizeDescription(@),
                     !.Tags = normalizeTags(@) ])

UpdateCheckBody_UnsortedTags(req) ==
    MarshalUpdateCheckRequest(
        [ req EXCEPT !.Description = normalizeDescription(@) ])

\* UpdateCheck: the body it hands to doRequest.
UpdateCheckBody(req) ==
    MarshalUpdateCheckRequest(
        [ req EXCEPT !.Description = normalizeDescription(@),
                     !.Tags = normalizeTags(@) ])

\* The body of Create's POST for a plan.
CreateBody(k, data) ==
    IF k = "project"
      THEN CreateProjectBody(ValueString(data.name), ProjectDescription(data))
      ELSE CreateCheckBody(CreateCheckRequest(data))

\* The body of Update's PUT for a plan and the state it is applied to.
UpdateBody(k, data, state) ==
    IF k = "project"
      THEN UpdateProjectBody(UpdateProjectArgs(data, state))
      ELSE UpdateCheckBody(UpdateCheckRequest(data, state))

(***************************************************************************)
(* The remote service: it stores what a POST sends (defaults for what the  *)
(* body leaves out), applies the fields a PUT carries and leaves the       *)
(* others alone, and answers a GET with the stored resource, its tags in   *)
(* any order.  A time.Time is the instant it denotes.                      *)
(***************************************************************************)
Instant(n) == [instant |-> n]

\* time.Time.Format("2006-01-02T15:04:05Z07:00")
Format(t) == << "rfc3339", t.instant >>

StoredDescription(body) ==
    IF Has(body, "description") THEN Ptr(body["description"]) ELSE Nil

ServerCreate(k, body) ==
    IF k = "project"
      THEN [ id |-> "id1",
             org_id |-> body["org_id"],
             name |-> body["name"],
             description |-> StoredDescription(body),
             created_at |-> Instant(0),
             updated_at |-> Instant(0) ]
      ELSE [ id |-> "id1",
             project_id |-> body["project_id"],
             name |-> body["name"],
             slug |-> body["slug"],
             period_seconds |-> body["period_seconds"],
             grace_seconds |-> IF Has(body, "grace_seconds")
                                 THEN body["grace_seconds"] ELSE 0,
             description |-> StoredDescription(body),
             tags |-> IF Has(body, "tags") THEN Range(body["tags"]) ELSE {},
             paused |-> IF Has(body, "paused") THEN body["paused"] ELSE FALSE,
             public_id |-> "pub1",
             status |-> "new",
             created_at |-> Instant(0) ]

\* The value a PUT leaves in a field: the body's if present.
Applied(body, key, old) == IF Has(body, key) THEN body[key] ELSE old

\* An empty-string description in a PUT clears the stored one.
AppliedDescription(body, old) ==
    IF Has(body, "description")
      THEN IF body["description"] = "" THEN Nil ELSE Ptr(body["description"])
      ELSE old

ServerUpdate(k, r, body) ==
    IF k = "project"
      THEN [ r EXCEPT !.name = Applied(body, "name", @),
                      !.description = AppliedDescription(body, @) ]
      ELSE [ r EXCEPT !.name = Applied(body, "name", @),
                      !.period_seconds = Applied(body, "period_seconds", @),
                      !.grace_seconds = Applied(body, "grace_seconds", @),
                      !.description = AppliedDescription(body, @),
                      !.tags = IF Has(body, "tags") THEN Range(body["tags"]) ELSE @,
                      !.paused = Applied(body, "paused", @) ]

\* The orders a set of tags can be listed in.
Orders(S) == { s \in [1 .. Cardinality(S) -> S] : Range(s) = S }

\* The tags of a decoded response: a list in some order; for no tags the
\* JSON is [] or null, which decodes to an empty or a nil slice.
DecodedTags(S) ==
    { Slice(s) : s \in Orders(S) } \cup (IF S = {} THEN {Nil} ELSE {})

\* The structs json.Unmarshal can fill from the answer to a GET of r.
GetResponses(k, r) ==
    IF k = "project"
      THEN { [ ID |-> r.id, OrgID |-> r.org_id, Name |-> r.name,
               Description |-> r.description,
               CreatedAt |-> r.created_at, UpdatedAt |-> r.updated_at ] }
      ELSE { [ ID |-> r.id, ProjectID |-> r.project_id, Name |-> r.name,
               Slug |-> r.slug, PeriodSeconds |-> r.period_seconds,
               GraceSeconds |-> r.grace_seconds,
               Description |-> r.description, Tags |-> t,
               Paused |-> r.paused, PublicID |-> r.public_id,
               Status |-> r.status, CreatedAt |-> r.created_at ]
             : t \in DecodedTags(r.tags) }

\* The answer to a POST names the new resource; its other fields may be
\* left at their zero values.
IdOnly(k, r) ==
    IF k = "project"
      THEN [ ID |-> r.id, OrgID |-> "", Name |-> "", Description |-> Nil,
             CreatedAt |-> Instant(0), UpdatedAt |-> Instant(0) ]
      ELSE [ ID |-> r.id, ProjectID |-> "", Name |-> "", Slug |-> "",
             PeriodSeconds |-> 0, GraceSeconds |-> 0, Description |-> Nil,
             Tags |-> Nil, Paused |-> FALSE, PublicID |-> "", Status |-> "",
             CreatedAt |-> Instant(0) ]

PostResponses(k, r) == GetResponses(k, r) \cup { IdOnly(k, r) }

(***************************************************************************)
(* What the accessors return and how the handlers map it to tracked state. *)
(***************************************************************************)
GetResult_NoNormalize(k, resp) == resp

\* GetProject returns the decoded struct; GetCheck normalizes its tags.
GetResult(k, resp) ==
    IF k = "project" THEN resp ELSE [ resp EXCEPT !.Tags = normalizeTags(@) ]

\* The "Map response to model" block of ProjectResource's Create, Read and
\* Update.
mapProjectToModel(project) ==
    [ id |-> StringValue(project.ID),
      org_id |-> StringValue(project.OrgID),
      name |-> StringValue(project.Name),
      description |-> IF project.Description # Nil
                        THEN StringValue(Deref(project.Description))
                        ELSE Null,
      created_at |-> StringValue(Format(project.CreatedAt)),
      updated_at |-> StringValue(Format(project.UpdatedAt)) ]

mapCheckToModel_KeepsPingURL(check) ==
    [ id |-> StringValue(check.ID),
      project_id |-> StringValue(check.ProjectID),
      name |-> StringValue(check.Name),
      slug |-> StringValue(check.Slug),
      period_seconds |-> Int64Value(check.PeriodSeconds),
      grace_seconds |-> Int64Value(check.GraceSeconds),
      paused |-> BoolValue(check.Paused),
      public_id |-> StringValue(check.PublicID),
      status |-> StringValue(check.Status),
      created_at |-> StringValue(Format(check.CreatedAt)),
      ping_url |-> IF model # None
                     THEN model.ping_url
                     ELSE StringValue(PingURLBase \o << "/" >> \o << check.PublicID >>),
      description |-> IF check.Description # Nil
                        THEN StringValue(Deref(check.Description))
                        ELSE Null,
      tags |-> IF SliceLen(check.Tags) > 0
                 THEN SetValueMust(Elems(check.Tags))
                 ELSE Null ]

\* CheckResource.mapCheckToModel: every field of the model from the check
\* the accessor returned, ping_url from the client's ping URL base.
mapCheckToModel(check) ==
    [ id |-> StringValue(check.ID),
      project_id |-> StringValue(check.ProjectID),
      name |-> StringValue(check.Name),
      slug |-> StringValue(check.Slug),
      period_seconds |-> Int64Value(check.PeriodSeconds),
      grace_seconds |-> Int64Value(check.GraceSeconds),
      paused |-> BoolValue(check.Paused),
      public_id |-> StringValue(check.PublicID),
      status |-> StringValue(check.Status),
      created_at |-> StringValue(Format(check.CreatedAt)),
      ping_url |-> StringValue(PingURLBase \o << "/" >> \o << check.PublicID >>),
      description |-> IF check.Description # Nil
                        THEN StringValue(Deref(check.Description))
                        ELSE Null,
      tags |-> IF SliceLen(check.Tags) > 0
                 THEN SetValueMust(Elems(check.Tags))
                 ELSE Null ]

MapToModel(k, v) ==
    IF k = "project" THEN mapProjectToModel(v) ELSE mapCheckToModel(v)

(***************************************************************************)
(* The handlers on field values.  Each action is one handler from the      *)
(* host's call to its return; a call of doRequest appears as what it       *)
(* returns (nil or an error) and, for a write that returned nil, as its    *)
(* effect on the remote resource.  One resource is reconciled at a time;   *)
(* a 404 means that the resource is gone from the remote service.          *)
(***************************************************************************)
\* What a call of doRequest returns: nil, the APIError of a terminal status
\* (409 to a POST, 404 to the requests that name a resource), or the error
\* of exhausted retries.
DoRequestResults(m) ==
    { NoErr, MaxRetriesErr(NetErr("io")),
      IF m = "POST" THEN APIError(409) ELSE APIError(404) }

\* One call of doRequest: the verb, the id in its path, the error returned
\* and the struct decoded into the result target.
Call(m, id, e, resp) == [ method |-> m, id |-> id, err |-> e, resp |-> resp ]

Path_AlwaysMe(k, id) == << "/api/v1/me" >>

\* The path of a request: the collection of the resource kind, then the id
\* if the request names a resource; New's request goes to /api/v1/me.
Path(k, id) ==
    IF k = "client" THEN << "/api/v1/me" >>
    ELSE LET collection == IF k = "project" THEN "/api/v1/projects"
                                            ELSE "/api/v1/checks"
         IN  IF id = "" THEN << collection >> ELSE << collection, "/", id >>

\* The calls of an operation on kind k, each with its path.
WithPaths(k, cs) ==
    [ i \in DOMAIN cs |->
        [ method |-> cs[i].method, id |-> cs[i].id, err |-> cs[i].err,
          resp |-> cs[i].resp, path |-> Path(k, cs[i].id) ] ]

\* The remote resource after a request that returned e.
RemoteAfter(e, r) == IF IsNotFound(e) THEN None ELSE r

\* The handler returns to the host.
Finish(k, name, data, body, cs, e, d, m, r, g) ==
    /\ op' = [kind |-> k, name |-> name]
    /\ phase' = "done"
    /\ accRet' = e
    /\ diag' = d
    /\ plan' = data
    /\ prior' = model
    /\ reqBody' = body
    /\ calls' = WithPaths(k, cs)
    /\ model' = m
    /\ remote' = r
    /\ got' = g
    /\ tracked' = [tracked EXCEPT ![k] = IF m = None THEN "absent" ELSE "live"]
    /\ UNCHANGED << method, attempt, rpc, lastErr, delay, ret, result, cancelled,
                    nAttempts, nWaits, sent, lastResp >>
    /\ UNCHANGED << client, fnVars >>

ReadBack_SavesPlanOnError(k, name, data, body, write, r) ==
    \E e \in DoRequestResults("GET") :
        LET summary == IF name = "Create" THEN "Error Creating" ELSE "Error Updating"
        IN  IF e # NoErr
              THEN Finish(k, name, data, body,
                          << write, Call("GET", r.id, e, None) >>,
                          e, Diag(summary, k, e), data, RemoteAfter(e, r), None)
              ELSE \E resp \in GetResponses(k, r) :
                      LET g == GetResult(k, resp)
                      IN  Finish(k, name, data, body,
                                 << write, Call("GET", r.id, NoErr, resp) >>,
                                 NoErr, NoDiag, MapToModel(k, g), r, g)

ReadBack_KeepsPlanDescription(k, name, data, body, write, r) ==
    \E e \in DoRequestResults("GET") :
        LET summary == IF name = "Create" THEN "Error Creating" ELSE "Error Updating"
        IN  IF e # NoErr
              THEN Finish(k, name, data, body,
                          << write, Call("GET", r.id, e, None) >>,
                          e, Diag(summary, k, e), model, RemoteAfter(e, r), None)
              ELSE \E resp \in GetResponses(k, r) :
                      LET g == GetResult(k, resp)
                      IN  Finish(k, name, data, body,
                                 << write, Call("GET", r.id, NoErr, resp) >>,
                                 NoErr, NoDiag,
                                 [ MapToModel(k, g) EXCEPT !.description = data.description ],
                                 r, g)

ReadBack_Compensates(k, name, data, body, write, r) ==
    \E e \in DoRequestResults("GET") :
        LET summary == IF name = "Create" THEN "Error Creating" ELSE "Error Updating"
        IN  IF e # NoErr
              THEN IF name = "Create"
                     THEN Finish(k, name, data, body,
                                 << write, Call("GET", r.id, e, None),
                                    Call("DELETE", r.id, NoErr, None) >>,
                                 e, Diag(summary, k, e), model, None, None)
                     ELSE Finish(k, name, data, body,
                                 << write, Call("GET", r.id, e, None) >>,
                                 e, Diag(summary, k, e), model, RemoteAfter(e, r), None)
              ELSE \E resp \in GetResponses(k, r) :
                      LET g == GetResult(k, resp)
                      IN  Finish(k, name, data, body,
                                 << write, Call("GET", r.id, NoErr, resp) >>,
                                 NoErr, NoDiag, MapToModel(k, g), r, g)

ReadBack_ReturnsWriteResponse(k, name, data, body, write, r) ==
    \E e \in DoRequestResults("GET") :
        LET summary == IF name = "Create" THEN "Error Creating" ELSE "Error Updating"
        IN  IF e # NoErr
              THEN Finish(k, name, data, body,
                          << write, Call("GET", r.id, e, None) >>,
                          e, Diag(summary, k, e), model, RemoteAfter(e, r), None)
              ELSE \E resp \in GetResponses(k, r) :
                      LET g == IF write.resp = None THEN GetResult(k, resp)
                                                    ELSE write.resp
                      IN  Finish(k, name, data, body,
                                 << write, Call("GET", r.id, NoErr, resp) >>,
                                 NoErr, NoDiag, MapToModel(k, g), r, g)

\* The read-back GetProject / GetCheck that ends CreateProject, CreateCheck,
\* UpdateProject and UpdateCheck, and what the handler does with its result.
ReadBack(k, name, data, body, write, r) ==
    \E e \in DoRequestResults("GET") :
        LET summary == IF name = "Create" THEN "Error Creating" ELSE "Error Updating"
        IN  IF e # NoErr
              THEN Finish(k, name, data, body,
                          << write, Call("GET", r.id, e, None) >>,
                          e, Diag(summary, k, e), model, RemoteAfter(e, r), None)
              ELSE \E resp \in GetResponses(k, r) :
                      LET g == GetResult(k, resp)
                      IN  Finish(k, name, data, body,
                                 << write, Call("GET", r.id, NoErr, resp) >>,
                                 NoErr, NoDiag, MapToModel(k, g), r, g)

\* Create of ProjectResource / CheckResource with CreateProject /
\* CreateCheck.
CreateResource(k) ==
    /\ phase = "idle"
    /\ client # Nil
    /\ model = None
    /\ \E data \in Plans(k), e \in DoRequestResults("POST") :
          LET body == CreateBody(k, data)
          IN  IF e # NoErr
                THEN LET err == IF IsConflict(e) THEN ConflictError(k) ELSE e
                     IN  Finish(k, "Create", data, body,
                                << Call("POST", "", e, None) >>,
                                err, Diag("Error Creating", k, err),
                                model, None, None)
                ELSE LET r == ServerCreate(k, body)
                     IN  \E post \in PostResponses(k, r) :
                            ReadBack(k, "Create", data, body,
                                     Call("POST", "", NoErr, post), r)

\* Read of ProjectResource / CheckResource with GetProject / GetCheck, for
\* a tracked resource or for the one ImportState has just seeded.
ReadResource(k) ==
    /\ phase \in {"idle", "imported"}
    /\ client # Nil
    /\ model # None
    /\ tracked[k] = "live"
    /\ \E e \in DoRequestResults("GET") :
          IF e # NoErr
            THEN LET cs == << Call("GET", ValueString(model.id), e, None) >>
                 IN  IF IsNotFound(e)
                       THEN Finish(k, "Read", None, EmptyObject, cs,
                                   e, NoDiag, None, None, None)
                       ELSE Finish(k, "Read", None, EmptyObject, cs,
                                   e, Diag("Error Reading", k, e),
                                   model, remote, None)
            ELSE /\ remote # None
                 /\ \E resp \in GetResponses(k, remote) :
                      LET g == GetResult(k, resp)
                      IN  Finish(k, "Read", None, EmptyObject,
                                 << Call("GET", ValueString(model.id), NoErr, resp) >>,
                                 NoErr, NoDiag, MapToModel(k, g), remote, g)

\* The attributes a configuration sets.
UserSettable(k) ==
    IF k = "project"
      THEN {"name", "description"}
      ELSE {"project_id", "name", "slug", "period_seconds", "grace_seconds",
            "description", "tags", "paused"}

Updatable_All(k) == UserSettable(k)

\* The attributes Update can change in place: those whose schema has no
\* RequiresReplace plan modifier.
Updatable(k) == UserSettable(k) \ {"project_id", "slug"}

\* Equality of an attribute's values as the framework decides it.
SameValue(f, a, b) == IF f = "tags" THEN SetEqual(a, b) ELSE Equal(a, b)

\* The tracked state is what a Read of the remote resource gives: the host
\* refreshes the state before it plans.
Refreshed(k) ==
    /\ client # Nil
    /\ remote # None
    /\ \E resp \in GetResponses(k, remote) :
          model = MapToModel(k, GetResult(k, resp))

\* Update of ProjectResource / CheckResource with UpdateProject /
\* UpdateCheck.  The host calls Update for a plan that differs from the
\* refreshed state, and never for a change of project_id or slug
\* (RequiresReplace).
UpdateResource(k) ==
    /\ phase = "idle"
    /\ client # Nil
    /\ model # None
    /\ tracked[k] = "live"
    /\ Refreshed(k)
    /\ \E data \in Plans(k), e \in DoRequestResults("PUT") :
          /\ \E f \in Updatable(k) : ~SameValue(f, data[f], model[f])
          /\ \A f \in UserSettable(k) \ Updatable(k) : data[f] = model[f]
          /\ LET body == UpdateBody(k, data, model)
                 id == ValueString(model.id)
             IN  IF e # NoErr
                   THEN Finish(k, "Update", data, body,
                               << Call("PUT", id, e, None) >>,
                               e, Diag("Error Updating", k, e),
                               model, RemoteAfter(e, remote), None)
                   ELSE /\ remote # None
                        /\ ReadBack(k, "Update", data, body,
                                    Call("PUT", id, NoErr, None),
                                    ServerUpdate(k, remote, body))

\* Delete of ProjectResource / CheckResource with DeleteProject /
\* DeleteCheck.
DeleteResource(k) ==
    /\ phase = "idle"
    /\ client # Nil
    /\ model # None
    /\ tracked[k] = "live"
    /\ \E e \in DoRequestResults("DELETE") :
          LET cs == << Call("DELETE", ValueString(model.id), e, None) >>
          IN  IF e # NoErr /\ ~IsNotFound(e)
                THEN Finish(k, "Delete", None, EmptyObject, cs,
                            e, Diag("Error Deleting", k, e), model, remote, None)
                ELSE Finish(k, "Delete", None, EmptyObject, cs,
                            e, NoDiag, None, None, None)

\* The attributes of a tracked state: the fields of ProjectResourceModel /
\* CheckResourceModel.
StateAttributes(k) ==
    IF k = "project"
      THEN {"id", "org_id", "name", "description", "created_at", "updated_at"}
      ELSE {"id", "project_id", "name", "slug", "period_seconds",
            "grace_seconds", "description", "tags", "paused", "public_id",
            "ping_url", "status", "created_at"}

\* The ids a user imports: the id the remote service gives its resource.
ImportIDs == {"id1"}

ImportedState_WithOrgID(k, id) ==
    [ f \in StateAttributes(k) |->
        IF f \in {"id", "org_id"} THEN StringValue(id) ELSE Null ]

\* resource.ImportStatePassthroughID(ctx, path.Root("id"), req, resp): the
\* state with id set to req.ID and every other attribute null.
ImportedState(k, id) ==
    [ f \in StateAttributes(k) |-> IF f = "id" THEN StringValue(id) ELSE Null ]

\* The kind of a remote resource.
KindOf(r) == IF "org_id" \in DOMAIN r THEN "project" ELSE "check"

\* ImportState of ProjectResource / CheckResource for a resource that is not
\* tracked: the remote resource, imported under its own kind, or an id the
\* remote service does not know.  The host calls Read next, with the state
\* ImportState returned.
ImportState(k) ==
    /\ phase = "idle"
    /\ client # Nil
    /\ model = None
    /\ remote # None => KindOf(remote) = k
    /\ \E id \in ImportIDs :
          /\ op' = [kind |-> k, name |-> "Import"]
          /\ phase' = "imported"
          /\ accRet' = NoErr
          /\ diag' = NoDiag
          /\ plan' = None
          /\ prior' = None
          /\ reqBody' = EmptyObject
          /\ got' = None
          /\ calls' = << >>
          /\ model' = ImportedState(k, id)
          /\ tracked' = [tracked EXCEPT ![k] = "live"]
    /\ UNCHANGED << method, attempt, rpc, lastErr, delay, ret, result, cancelled,
                    nAttempts, nWaits, sent, lastResp >>
    /\ UNCHANGED << remote, client, fnVars >>

\* strings.TrimSuffix(s, suffix) on a string given as its segments.
TrimSuffix(s, suffix) ==
    IF Len(s) >= 1 /\ s[Len(s)] = suffix THEN SubSeq(s, 1, Len(s) - 1) ELSE s

\* The MeResponse structs decoded from the answer to GET /api/v1/me: the
\* ping URL base is empty, a URL, or a URL with a trailing slash.
MeResponses ==
    [ OrganizationID : {"org1"},
      PingURLBase : { << >>, << "https://ping.example" >>,
                      << "https://ping.example", "/" >> } ]

\* What doRequest returns for GET /api/v1/me: nil, a terminal status, the
\* error of exhausted retries, or the context's error.
MeResults == { NoErr, APIError(401), MaxRetriesErr(NetErr("io")), CtxErr }

\* "failed to fetch organization context: %w" wrapping e
ConstructErr(e) ==
    [type |-> "construct", status |-> 0, kind |-> "none", cause |-> "none",
     wraps |-> {e}]

pingURLBase_NoFallback(meResp) == TrimSuffix(meResp.PingURLBase, "/")

\* fetchOrgContext: the ping URL base it caches for a decoded MeResponse.
pingURLBase(meResp) ==
    TrimSuffix(IF meResp.PingURLBase = << >> THEN DefaultPingURLBase
                                             ELSE meResp.PingURLBase, "/")

\* client.New returns to PakyasProvider.Configure.
FinishNew(cs, e, c) ==
    /\ op' = [kind |-> "client", name |-> "New"]
    /\ phase' = "done"
    /\ accRet' = e
    /\ diag' = IF e # NoErr
                 THEN Diag("Unable to Create Pakyas API Client", "client", e)
                 ELSE NoDiag
    /\ calls' = WithPaths("client", cs)
    /\ client' = c
    /\ UNCHANGED << plan, prior, model, remote, reqBody, got, tracked, fnVars >>
    /\ UNCHANGED << method, attempt, rpc, lastErr, delay, ret, result, cancelled,
                    nAttempts, nWaits, sent, lastResp >>

New_KeepsClientOnError ==
    /\ phase = "idle"
    /\ client = Nil
    /\ \E e \in MeResults, meResp \in MeResponses :
          FinishNew(<< Call("GET", "", e, IF e # NoErr THEN None ELSE meResp) >>,
                    IF e # NoErr THEN ConstructErr(e) ELSE NoErr,
                    [ orgID |-> IF e # NoErr THEN "" ELSE meResp.OrganizationID,
                      pingURLBase |-> IF e # NoErr THEN << >>
                                                   ELSE pingURLBase(meResp) ])

\* PakyasProvider.Configure calls client.New in a fresh provider process:
\* fetchOrgContext's GET /api/v1/me, answered with one of responses, then
\* the client with its cached context, or no client and the wrapped error.
NewFrom(responses) ==
    /\ phase = "idle"
    /\ client = Nil
    /\ \E e \in MeResults :
          IF e # NoErr
            THEN FinishNew(<< Call("GET", "", e, None) >>, ConstructErr(e), Nil)
            ELSE \E meResp \in responses :
                    FinishNew(<< Call("GET", "", NoErr, meResp) >>, NoErr,
                              [ orgID |-> meResp.OrganizationID,
                                pingURLBase |-> pingURLBase(meResp) ])

\* client.New in the sessions the handlers run in.
New == NewFrom(MeResponses)

\* Longest ping_url_base, in segments, that /api/v1/me answers with.
MaxBaseLen == 4

\* Any MeResponse: ping_url_base is any string made of slashes and of
\* segments without a slash.
AnyMeResponses ==
    [ OrganizationID : {"org1"},
      PingURLBase : SeqsUpTo({"https://ping.example", "pings", "/"}, MaxBaseLen) ]

\* The provider process ends and its client with it; the tracked state and
\* the remote resource stay.
EndSession ==
    /\ phase = "idle"
    /\ client # Nil
    /\ client' = Nil
    /\ UNCHANGED << plan, prior, model, remote, reqBody, got, calls >>
    /\ UNCHANGED << ctlVars, fnVars >>

\* The host has taken the handler's response: the request and the response
\* of the call are gone, the tracked state stays.
Discard ==
    /\ phase = "done"
    /\ rpc = "none"
    /\ phase' = "idle"
    /\ op' = NoOp
    /\ accRet' = NoErr
    /\ diag' = NoDiag
    /\ plan' = None
    /\ prior' = None
    /\ reqBody' = EmptyObject
    /\ got' = None
    /\ calls' = << >>
    /\ UNCHANGED << model, remote, tracked, client, fnVars >>
    /\ UNCHANGED << method, attempt, rpc, lastErr, delay, ret, result, cancelled,
                    nAttempts, nWaits, sent, lastResp >>

\* normalizeTags applied to its argument, then to its own result.
Normalize ==
    /\ applied < 2
    /\ tagsOut' = normalizeTags(IF applied = 0 THEN tagsIn ELSE tagsOut)
    /\ applied' = applied + 1
    /\ UNCHANGED << tagsIn, descIn, descOut, descApplied, reqs, server,
                    ctlVars, dataVars >>

\* The slices normalizeTags is called with.
TagSlices == {Nil} \cup { Slice(s) : s \in SeqsUpTo(TagNames, MaxLen) }

\* normalizeDescription applied to its argument, then to its own result.
NormalizeDesc ==
    /\ descApplied < 2
    /\ descOut' = normalizeDescription(IF descApplied = 0 THEN descIn ELSE descOut)
    /\ descApplied' = descApplied + 1
    /\ UNCHANGED << descIn, tagsIn, tagsOut, applied, reqs, server,
                    ctlVars, dataVars >>

\* The pointers normalizeDescription is called with: nil, or a pointer to
\* an empty, a blank or a non-empty string.
DescriptionPointers == {Nil} \cup { Ptr(d) : d \in Descriptions \cup {" ", "d2"} }

(***************************************************************************)
(* Concurrent calls of doRequest on one client.  The host runs handlers of *)
(* different resources in parallel goroutines; each call of doRequest has  *)
(* its own attempt, lastErr and return value, and the calls share the      *)
(* client's read-only fields and its http.Client.  Every step of one call  *)
(* interleaves with the steps of the others.                               *)
(***************************************************************************)
\* The goroutines calling doRequest.
Callers == {"c1", "c2"}

\* What an attempt of a concurrent call ends with: success, a terminal
\* status, a retryable status, or a network-level failure.
ConcOutcomes ==
    { o \in Outcomes :
        o.type = "resp" => (o.status \in {200, 404, 429, 503} /\ o.body = "json") }

\* A caller that has not called doRequest yet.
NotCalled ==
    [ pc |-> "none", attempt |-> 0, lastErr |-> NoErr, ret |-> NoErr,
      nAttempts |-> 0, last |-> NoResp ]

Store_SharedRetryState(rs, c, l) ==
    [ d \in DOMAIN rs |->
        IF d = c THEN l
        ELSE [ rs[d] EXCEPT !.attempt = l.attempt, !.lastErr = l.lastErr ] ]

\* The locals of caller c become l: attempt and lastErr are variables of
\* the call's own frame.
Store(rs, c, l) == [ rs EXCEPT ![c] = l ]

\* lastErr = e; continue
RetryLocal(l, e) ==
    IF LoopContinues(l.attempt + 1)
      THEN [ l EXCEPT !.lastErr = e, !.attempt = @ + 1, !.pc = "wait" ]
      ELSE [ l EXCEPT !.lastErr = e, !.attempt = @ + 1, !.pc = "returned",
                      !.ret = ExhaustedError(e) ]

\* The body of the loop after http.Do returned o, on the locals l.
HandleOutcomeLocal(l, o) ==
    CASE o.type = "neterr" -> RetryLocal(l, NetErr("io"))
      [] o.type = "readerr" -> RetryLocal(l, ReadErr)
      [] o.type = "resp" /\ o.status >= 400 ->
            IF IsRetryable(APIError(o.status)) /\ l.attempt < MaxRetries
              THEN RetryLocal(l, APIError(o.status))
              ELSE [ l EXCEPT !.pc = "returned", !.ret = APIError(o.status) ]
      [] OTHER -> [ l EXCEPT !.pc = "returned", !.ret = NoErr ]

\* Caller c enters doRequest.
ConcCall(c) ==
    /\ reqs[c].pc = "none"
    /\ reqs' = Store(reqs, c, [ NotCalled EXCEPT !.pc = "send" ])
    /\ UNCHANGED << ctlVars, dataVars, tagsIn, tagsOut, applied,
                    descIn, descOut, descApplied, server >>

\* Caller c calls httpClient.Do.
ConcSend(c) ==
    /\ reqs[c].pc = "send"
    /\ reqs' = Store(reqs, c, [ reqs[c] EXCEPT !.pc = "inflight",
                                               !.nAttempts = @ + 1 ])
    /\ UNCHANGED << ctlVars, dataVars, tagsIn, tagsOut, applied,
                    descIn, descOut, descApplied, server >>

\* httpClient.Do and io.ReadAll return to caller c.
ConcReceive(c) ==
    /\ reqs[c].pc = "inflight"
    /\ \E o \in ConcOutcomes :
          reqs' = Store(reqs, c, HandleOutcomeLocal([ reqs[c] EXCEPT !.last = o ], o))
    /\ UNCHANGED << ctlVars, dataVars, tagsIn, tagsOut, applied,
                    descIn, descOut, descApplied, server >>

\* Caller c's backoff wait ends.
ConcTimerFires(c) ==
    /\ reqs[c].pc = "wait"
    /\ reqs' = Store(reqs, c, [ reqs[c] EXCEPT !.pc = "send" ])
    /\ UNCHANGED << ctlVars, dataVars, tagsIn, tagsOut, applied,
                    descIn, descOut, descApplied, server >>

(***************************************************************************)
(* The POST of CreateProject / CreateCheck against the remote service.     *)
(* An attempt reaches the service or not; the service creates a resource   *)
(* for a POST it accepts, and one that enforces a uniqueness constraint    *)
(* (the slug of a check within its project) answers 409 to a POST of what  *)
(* it already has.  The answer reaches doRequest, or is lost on the way.   *)
(***************************************************************************)
\* The goroutine running the Create.
PostCaller == "c1"

\* What an attempt of the POST can end with.
PostOutcomes ==
    { o \in Outcomes :
        o.type = "resp" => (o.status \in {200, 409, 503} /\ o.body = "json") }

\* The remote service before the Create: nothing created, with or without
\* a uniqueness constraint.
Servers == [ unique : BOOLEAN, created : {0} ]

\* The service accepts a POST: it has no uniqueness constraint, or nothing
\* the POST would duplicate.
Accepts(srv) == ~srv.unique \/ srv.created = 0

\* The states of the service after an attempt of the POST that ended with o
\* at doRequest.  A 2xx means it created the resource; a 409 that it holds
\* the resource already; a lost answer (network error, unreadable body) or
\* a 5xx of a gateway leaves open whether the POST was processed.
Served(srv, o) ==
    LET  made == [ srv EXCEPT !.created = @ + 1 ]
    IN   CASE o.type = "resp" /\ o.status < 400 ->
                 IF Accepts(srv) THEN {made} ELSE {}
           [] o.type = "resp" /\ o.status = 409 ->
                 IF Accepts(srv) THEN {} ELSE {srv}
           [] OTHER ->
                 IF Accepts(srv) THEN {srv, made} ELSE {srv}

\* httpClient.Do and io.ReadAll of an attempt of the POST return.
PostReceive ==
    /\ reqs[PostCaller].pc = "inflight"
    /\ \E o \in PostOutcomes :
          \E srv \in Served(server, o) :
             /\ server' = srv
             /\ reqs' = Store(reqs, PostCaller,
                              HandleOutcomeLocal([ reqs[PostCaller] EXCEPT !.last = o ], o))
    /\ UNCHANGED << ctlVars, dataVars, tagsIn, tagsOut, applied,
                    descIn, descOut, descApplied >>

(***************************************************************************)
(* Specification                                                           *)
(***************************************************************************)
\* Everything but the arguments of the normalizations and the remote
\* service a POST meets.
InitButTags ==
    /\ op = NoOp
    /\ phase = "idle"
    /\ method = "GET"
    /\ attempt = 0
    /\ rpc = "none"
    /\ lastErr = NoErr
    /\ delay = 0
    /\ ret = NoErr
    /\ result = "zero"
    /\ cancelled = FALSE
    /\ nAttempts = 0
    /\ nWaits = 0
    /\ sent = NoneSent
    /\ lastResp = NoResp
    /\ accRet = NoErr
    /\ tracked = [k \in Kinds |-> "absent"]
    /\ diag = NoDiag
    /\ plan = None
    /\ prior = None
    /\ model = None
    /\ remote = None
    /\ reqBody = EmptyObject
    /\ got = None
    /\ calls = << >>
    /\ client = [ orgID |-> "org1", pingURLBase |-> DefaultPingURLBase ]
    /\ tagsOut = Nil
    /\ applied = 0
    /\ descOut = Nil
    /\ descApplied = 0
    /\ reqs = [ c \in Callers |-> NotCalled ]

Init ==
    /\ InitButTags
    /\ tagsIn = Nil
    /\ descIn = Nil
    /\ server = [ unique |-> TRUE, created |-> 0 ]

Next ==
    \/ \E k \in Kinds : Create(k)
    \/ \E k \in Kinds : CreateAfterPost(k)
    \/ \E k \in Kinds : CreateAfterGet(k)
    \/ \E k \in Kinds : Read(k)
    \/ \E k \in Kinds : ReadAfterGet(k)
    \/ \E k \in Kinds : Update(k)
    \/ \E k \in Kinds : UpdateAfterPut(k)
    \/ \E k \in Kinds : UpdateAfterGet(k)
    \/ \E k \in Kinds : Delete(k)
    \/ \E k \in Kinds : DeleteAfterDelete(k)
    \/ Send
    \/ Receive
    \/ TimerFires
    \/ CtxDone
    \/ Cancel

Spec == Init /\ [][Next]_vars

\* A running handler takes its next step: http.Client's timeout ends every
\* attempt, the backoff timer fires, and the handler's code between two
\* requests does not block.
FairSpec == Spec /\ WF_vars(Next)

\* The handlers on field values.
DataNext ==
    \/ \E k \in Kinds : CreateResource(k)
    \/ \E k \in Kinds : ReadResource(k)
    \/ \E k \in Kinds : UpdateResource(k)
    \/ \E k \in Kinds : DeleteResource(k)
    \/ \E k \in Kinds : ImportState(k)
    \/ Discard
    \/ New
    \/ EndSession

DataSpec == Init /\ [][DataNext]_vars

\* normalizeTags on every slice of TagSlices.
TagInit ==
    /\ InitButTags
    /\ tagsIn \in TagSlices
    /\ descIn = Nil
    /\ server = [ unique |-> TRUE, created |-> 0 ]

TagNext == Normalize

TagSpec == TagInit /\ [][TagNext]_vars

\* Concurrent calls of doRequest, every interleaving of their steps.
ConcNext ==
    \/ \E c \in Callers : ConcCall(c)
    \/ \E c \in Callers : ConcSend(c)
    \/ \E c \in Callers : ConcReceive(c)
    \/ \E c \in Callers : ConcTimerFires(c)

ConcSpec == Init /\ [][ConcNext]_vars

\* The two normalizations of CreateCheck / UpdateCheck on every pair of a
\* description pointer and a tag slice.
NormInit ==
    /\ InitButTags
    /\ tagsIn \in TagSlices
    /\ descIn \in DescriptionPointers
    /\ server = [ unique |-> TRUE, created |-> 0 ]

\* One call of CreateProject / CreateCheck: the attempts of its POST, against
\* a service with or without a uniqueness constraint.
PostInit == InitButTags /\ tagsIn = Nil /\ descIn = Nil /\ server \in Servers

PostNext ==
    \/ ConcCall(PostCaller)
    \/ ConcSend(PostCaller)
    \/ PostReceive
    \/ ConcTimerFires(PostCaller)

PostSpec == PostInit /\ [][PostNext]_vars

\* Provider processes one after the other, each constructing its client
\* from any answer of /api/v1/me.
MeNext ==
    \/ NewFrom(AnyMeResponses)
    \/ Discard
    \/ EndSession

MeSpec == Init /\ [][MeNext]_vars

NormNext == Normalize \/ NormalizeDesc

NormSpec == NormInit /\ [][NormNext]_vars

(***************************************************************************)
(* Transport layer properties                                              *)
(***************************************************************************)
InRequest == rpc \in {"send", "inflight", "wait"}

RetryableStatus(o) == o.type = "resp" /\ (o.status = 429 \/ o.status >= 500)

TerminalStatus(o) == o.type = "resp" /\ o.status >= 400 /\ ~RetryableStatus(o)

NetworkFailure(o) == o.type \in {"neterr", "readerr", "ctxerr"}

\* The error doRequest records for a network-level outcome.
ErrorOf(o) ==
    CASE o.type = "neterr" -> NetErr("io")
      [] o.type = "ctxerr" -> NetErr("ctx")
      [] o.type = "readerr" -> ReadErr
      [] OTHER -> APIError(o.status)

\* C1: in doRequest, a response with status 429 or >= 500 received while
\* attempts remain does not end the call: the loop goes on to the backoff
\* wait of the next attempt, which is then sent unless the caller cancels
\* during the wait.  A response with any other status >= 400 ends the call at
\* that attempt with the APIError of that status, and a returned call makes
\* no further attempt.
C1_RetryEligibility ==
    [][ /\ (rpc = "inflight" /\ rpc' # "inflight" /\ RetryableStatus(lastResp')
                              /\ attempt < MaxRetries)
            => /\ rpc' = "wait"
               /\ attempt' = attempt + 1
               /\ lastErr' = APIError(lastResp'.status)
        /\ (rpc = "inflight" /\ rpc' # "inflight" /\ TerminalStatus(lastResp'))
            => /\ rpc' = "returned"
               /\ ret' = APIError(lastResp'.status)
               /\ nAttempts' = nAttempts
        /\ (rpc = "wait" /\ rpc' # "wait")
            => \/ rpc' = "send" /\ attempt' = attempt /\ ~cancelled
               \/ rpc' = "returned" /\ cancelled
        /\ (rpc = "send" /\ rpc' # "send") => nAttempts' = attempt + 1
        /\ rpc = "returned" => (nAttempts' = nAttempts \/ nAttempts' = 0)
      ]_vars

\* Both cases of C1 have happened: a 503 was retried (the second attempt is
\* in flight) and, in another run, a 404 ended the call at its first attempt.
C1_Witness_Retried ==
    /\ rpc = "inflight"
    /\ attempt = 1
    /\ nAttempts = 2
    /\ lastErr = APIError(503)

C1_Witness ==
    \/ C1_Witness_Retried
    \/ (rpc = "returned" /\ attempt = 2 /\ nAttempts = 3 /\ ret = APIError(404))

\* The call has returned after MaxRetries + 1 attempts whose last one failed
\* retryably (so every one of them did).
Exhausted ==
    /\ rpc = "returned"
    /\ nAttempts = MaxRetries + 1
    /\ (RetryableStatus(lastResp) \/ NetworkFailure(lastResp))

\* C2 as stated: when every attempt fails retryably until the retries are
\* exhausted, doRequest returns "max retries exceeded" wrapping the last
\* observed error, be it an API error or a network error.
C2_AsStated ==
    Exhausted => ret = MaxRetriesErr(ErrorOf(lastResp))

\* C2 as amended: when every attempt fails retryably until the retries are
\* exhausted, doRequest returns "max retries exceeded" wrapping the last
\* network-level error if the last attempt failed at network level, and the
\* bare APIError of the last response (not wrapped) if the last attempt was
\* answered with 429 or 5xx.
C2_Exhausted ==
    Exhausted =>
        /\ NetworkFailure(lastResp) => ret = MaxRetriesErr(ErrorOf(lastResp))
        /\ RetryableStatus(lastResp) => ret = APIError(lastResp.status)

C2_Witness_Network ==
    Exhausted /\ lastResp.type = "neterr" /\ ret = MaxRetriesErr(NetErr("io"))

C2_Witness_Status ==
    Exhausted /\ lastResp.status = 503 /\ ret = APIError(503)

C2_Witness ==
    \/ C2_Witness_Network
    \/ C2_Witness_Status

\* C3: one logical request makes at most MaxRetries + 1 = 6 HTTP attempts,
\* whatever the responses and network failures are, and it terminates: a
\* running call eventually returns, with success or one error.
C3_BoundedAttempts ==
    /\ [](nAttempts <= MaxRetries + 1)
    /\ [](InRequest => <>(rpc = "returned"))

\* A call that used all six attempts and returned.
C3_Witness ==
    rpc = "returned" /\ nAttempts = MaxRetries + 1 /\ nWaits = MaxRetries

\* The call has returned at an attempt that was answered with a status
\* below 400 (the attempts before it all failed retryably).
Succeeded(k) ==
    /\ rpc = "returned"
    /\ attempt = k
    /\ lastResp.type = "resp"
    /\ lastResp.status < 400

Unparseable == HasResult(method) /\ lastResp.body = "garbage"

\* C4 as stated: for every k in 0..5, if the first k attempts fail retryably
\* and attempt k+1 receives a status < 400, doRequest returns success after
\* exactly k+1 attempts.
C4_AsStated ==
    \A k \in 0 .. MaxRetries :
        Succeeded(k) => (ret = NoErr /\ nAttempts = k + 1)

\* C4 as amended: for every k in 0..5, if the first k attempts fail retryably
\* and attempt k+1 receives a status < 400, doRequest returns after exactly
\* k+1 attempts; it returns success, with a non-empty body parsed into the
\* result target when one was requested, unless a result target was
\* requested and the body is not valid JSON, in which case it returns the
\* "failed to parse response" error at that attempt, without retrying.
C4_SuccessAfterRetries ==
    \A k \in 0 .. MaxRetries :
        Succeeded(k) =>
            /\ nAttempts = k + 1
            /\ nWaits = k
            /\ ret = (IF Unparseable THEN ParseErr ELSE NoErr)
            /\ result = (IF HasResult(method) /\ lastResp.body = "json"
                           THEN "parsed" ELSE "zero")

\* The spec's case (three failures, then 200 on the 4th attempt) and the
\* last possible one (success on the 6th attempt).
C4_Witness_Fourth ==
    /\ Succeeded(3)
    /\ lastErr = APIError(503)
    /\ lastResp.status = 200
    /\ ret = NoErr
    /\ result = "parsed"
    /\ nAttempts = 4

C4_Witness ==
    \/ C4_Witness_Fourth
    \/ (Succeeded(MaxRetries) /\ lastErr.type = "net" /\ ret = NoErr)

\* C5: if the caller's cancellation signal fires while doRequest waits out
\* a backoff delay, the next step of doRequest returns ctx.Err(): no further
\* attempt is sent and the error is not "max retries exceeded".
C5_CancelDuringWait ==
    [][ (rpc = "wait" /\ cancelled) =>
            /\ rpc' = "returned"
            /\ ret' = CtxErr
            /\ ret'.type # "maxretries"
            /\ nAttempts' = nAttempts
            /\ sent' = sent
      ]_vars

\* The context was cancelled during the wait before the third attempt and
\* doRequest returned the cancellation error after two attempts.
C5_Witness ==
    /\ rpc = "returned"
    /\ ret = CtxErr
    /\ cancelled
    /\ lastResp.type = "resp"
    /\ nAttempts = 2
    /\ nWaits = 1

\* C6: the wait before attempt i (i = 1..5) is BaseRetryDelay * 2^(i-1) plus
\* a jitter in [0, BaseRetryDelay * 2^(i-1) / 2), so it lies in
\* [BaseRetryDelay * 2^(i-1), 1.5 * BaseRetryDelay * 2^(i-1)); the initial
\* attempt (attempt 0) is made without any wait.
C6_RetryDelay ==
    /\ rpc = "wait" =>
          /\ attempt \in 1 .. MaxRetries
          /\ delay >= BaseRetryDelay * 2 ^ (attempt - 1)
          /\ 2 * delay < 3 * BaseRetryDelay * 2 ^ (attempt - 1)
    /\ rpc # "wait" => delay = 0
    /\ InRequest => nWaits = (IF rpc = "wait" THEN attempt - 1 ELSE attempt)
    /\ (InRequest /\ attempt = 0) => (nWaits = 0 /\ rpc # "wait")

\* A wait with jitter before the last attempt, and the largest wait before
\* the third.
C6_Witness_Fifth ==
    /\ rpc = "wait"
    /\ attempt = MaxRetries
    /\ delay > BaseRetryDelay * 16

C6_Witness ==
    \/ C6_Witness_Fifth
    \/ (rpc = "wait" /\ attempt = 3 /\ delay = BaseRetryDelay * 6 - 1)

(***************************************************************************)
(* Accessor and reconciler properties                                      *)
(***************************************************************************)
Finished(name) == phase = "done" /\ op.name = name

NotFoundAnswer == lastResp.type = "resp" /\ lastResp.status = 404

\* C7: for both resource kinds, when the GET issued by Read ends with HTTP
\* 404, Read removes the resource from tracked state and reports no error
\* diagnostic.
C7_ReadNotFound ==
    (Finished("Read") /\ NotFoundAnswer) =>
        /\ tracked[op.kind] = "absent"
        /\ diag = NoDiag

C7_Witness_Project ==
    /\ Finished("Read")
    /\ op.kind = "project"
    /\ NotFoundAnswer
    /\ tracked["project"] = "absent"

C7_Witness_Check ==
    /\ Finished("Read")
    /\ op.kind = "check"
    /\ NotFoundAnswer
    /\ nAttempts = 3
    /\ tracked["check"] = "absent"

C7_Witness ==
    \/ C7_Witness_Project
    \/ C7_Witness_Check

\* C8: when the POST of CreateProject or CreateCheck is answered with 409,
\* the accessor returns the "<kind> already exists" conflict error naming
\* its resource kind, and no further network call is made: the POST is not
\* retried and no read-back GET is sent.
C8_ConflictOnCreate ==
    [][ (op.name = "Create" /\ phase = "write" /\ rpc # "inflight"
            /\ lastResp.type = "resp" /\ lastResp.status = 409) =>
            /\ rpc = "returned"
            /\ phase' = "done"
            /\ accRet' = ConflictError(op.kind)
            /\ accRet'.kind \in Kinds
            /\ diag'.err = accRet'
            /\ sent' = sent
            /\ sent["GET"] = 0
            /\ tracked' = tracked
      ]_vars

C8_Witness_Project ==
    /\ Finished("Create")
    /\ accRet = ConflictError("project")
    /\ sent = [NoneSent EXCEPT !["POST"] = 1]

C8_Witness_Check ==
    /\ Finished("Create")
    /\ accRet = ConflictError("check")
    /\ sent = [NoneSent EXCEPT !["POST"] = 2]

C8_Witness ==
    \/ C8_Witness_Project
    \/ C8_Witness_Check

\* C9: for both resource kinds, when the DELETE issued by Delete ends with
\* HTTP 404, Delete reports no error diagnostic and the resource ends absent
\* from tracked state, exactly as after a DELETE answered with success.
C9_DeleteNotFound ==
    /\ (Finished("Delete") /\ NotFoundAnswer) =>
          (diag = NoDiag /\ tracked[op.kind] = "absent")
    /\ (Finished("Delete") /\ lastResp.type = "resp" /\ lastResp.status < 400) =>
          (diag = NoDiag /\ tracked[op.kind] = "absent")

C9_Witness_Project ==
    /\ Finished("Delete")
    /\ op.kind = "project"
    /\ NotFoundAnswer
    /\ tracked["project"] = "absent"

C9_Witness_Check ==
    /\ Finished("Delete")
    /\ op.kind = "check"
    /\ NotFoundAnswer
    /\ tracked["check"] = "absent"

C9_Witness ==
    \/ C9_Witness_Project
    \/ C9_Witness_Check

\* C10 as stated: DeleteProject and DeleteCheck do not return an error when
\* the DELETE request is answered with 404.
C10_AsStated ==
    (Finished("Delete") /\ NotFoundAnswer) => accRet = NoErr

\* C10 as amended: DeleteProject and DeleteCheck return the 404 APIError of
\* doRequest unchanged when the DELETE request is answered with 404; it is
\* the reconciler's Delete that takes this not-found error for success.
C10_AccessorDeleteNotFound ==
    (Finished("Delete") /\ NotFoundAnswer) =>
        /\ accRet = APIError(404)
        /\ IsNotFound(accRet)
        /\ diag = NoDiag

C10_Witness_Project ==
    /\ Finished("Delete")
    /\ op.kind = "project"
    /\ accRet = APIError(404)

C10_Witness_Check ==
    /\ Finished("Delete")
    /\ op.kind = "check"
    /\ accRet = APIError(404)
    /\ nAttempts = 2

C10_Witness ==
    \/ C10_Witness_Project
    \/ C10_Witness_Check

(***************************************************************************)
(* Not-found outside Read and Delete                                       *)
(***************************************************************************)
\* A handler returns to the host.
HandlerReturns == phase # "done" /\ phase' = "done"

\* C11: when the PUT of Update, or its read-back GET, is answered 404, Update
\* returns with the error diagnostic "Error Updating" carrying the 404 and
\* the tracked state is the one it was called with: the resource is still
\* tracked.  A handler that returns after a 404 changes the tracked state
\* only if it is Read or Delete, and reports no error only if it is Read
\* (which removes the resource) or Delete (which succeeds).
C11_UpdateNotFound ==
    [][ (HandlerReturns /\ NotFoundAnswer')
          => /\ op.name = "Update"
                  => /\ diag' = Diag("Error Updating", op.kind, APIError(404))
                     /\ accRet' = APIError(404)
                     /\ tracked' = tracked
                     /\ tracked'[op.kind] = "live"
             /\ tracked' # tracked => op.name \in {"Read", "Delete"}
             /\ diag' = NoDiag => op.name \in {"Read", "Delete"}
      ]_vars

\* Update of a Check has returned after its PUT was answered 404.
C11_Witness_Put ==
    /\ Finished("Update")
    /\ op.kind = "check"
    /\ NotFoundAnswer
    /\ sent["PUT"] = 1
    /\ sent["GET"] = 0
    /\ tracked["check"] = "live"

\* Update of a Project has returned after its read-back GET was answered 404.
C11_Witness_Get ==
    /\ Finished("Update")
    /\ op.kind = "project"
    /\ NotFoundAnswer
    /\ sent["PUT"] = 1
    /\ sent["GET"] = 1
    /\ tracked["project"] = "live"

C11_Witness ==
    \/ C11_Witness_Put
    \/ (C11_Witness_Get /\ diag.summary = "Error Updating")

(***************************************************************************)
(* Read-after-write                                                        *)
(***************************************************************************)
\* Create or Update has returned to the host without an error.
Done(name) == Finished(name) /\ accRet = NoErr /\ diag = NoDiag

WriteVerb(name) == IF name = "Create" THEN "POST" ELSE "PUT"

\* C12: a Create or Update (Project or Check) that succeeds has made exactly
\* two calls of doRequest, both returning nil: the write (POST or PUT) and
\* then a GET of the resource just written.  What the accessor returns is
\* what that GET decoded (for a Check with its tags normalized), whatever the
\* write was answered with, and the tracked state is mapped from it.
C12_ReadAfterWrite ==
    \A name \in {"Create", "Update"} :
        Done(name) =>
            /\ Len(calls) = 2
            /\ calls[1].method = WriteVerb(name)
            /\ calls[1].err = NoErr
            /\ calls[2].method = "GET"
            /\ calls[2].err = NoErr
            /\ calls[2].id = remote.id
            /\ name = "Update" => calls[1].id = calls[2].id
            /\ calls[2].resp \in GetResponses(op.kind, remote)
            /\ got = GetResult(op.kind, calls[2].resp)
            /\ model = MapToModel(op.kind, got)

\* Create of a Check succeeded although the POST was answered with a body
\* that holds the id only.
C12_Witness_Create ==
    /\ Done("Create")
    /\ op.kind = "check"
    /\ calls[1].resp = IdOnly("check", remote)
    /\ got.PublicID = "pub1"

\* Update of a Project succeeded.
C12_Witness_Update ==
    /\ Done("Update")
    /\ op.kind = "project"
    /\ Has(reqBody, "name")
    /\ got.Name = reqBody["name"]

C12_Witness ==
    \/ C12_Witness_Create
    \/ (C12_Witness_Update /\ Len(calls) = 2)

(***************************************************************************)
(* Update sends what changed                                               *)
(***************************************************************************)
\* Update has handed its PUT to doRequest (whatever came of it).
PutSent == Finished("Update") /\ Len(calls) >= 1 /\ calls[1].method = "PUT"

\* C13 as stated: for every desired configuration and previous state and
\* every updatable field (Project: name, description; Check: name,
\* period_seconds, grace_seconds, description, tags, paused), the body of
\* Update's PUT contains the field exactly when desired and previous differ,
\* a null or empty desired value included.
C13_AsStated ==
    PutSent =>
        \A f \in Updatable(op.kind) :
            Has(reqBody, f) <=> ~SameValue(f, plan[f], prior[f])

\* C14 as stated: when Update is called with a null desired description and
\* a non-null previous one (Project or Check), the body of the PUT carries
\* description as the empty string.
C14_AsStated ==
    (PutSent /\ IsNull(plan.description) /\ ~IsNull(prior.description))
        => (Has(reqBody, "description") /\ reqBody["description"] = "")

\* Update of a Check whose plan differs from the state in paused alone,
\* false in the state and true in the plan.
OnlyPausedChanged ==
    /\ PutSent
    /\ op.kind = "check"
    /\ prior.paused = BoolValue(FALSE)
    /\ plan.paused = BoolValue(TRUE)
    /\ \A f \in Updatable("check") \ {"paused"} : SameValue(f, plan[f], prior[f])

\* C15: an Update of a Check that changes only paused, from false to true,
\* sends the body {"paused": true}: no name, period_seconds, grace_seconds,
\* description or tags.
C15_OnlyPaused ==
    OnlyPausedChanged => reqBody = ("paused" :> TRUE)

\* Such an Update for a check that has tags, declared in another order than
\* the tracked one.
C15_Witness ==
    /\ OnlyPausedChanged
    /\ ~IsNull(prior.tags)
    /\ plan.tags # prior.tags
    /\ DOMAIN reqBody = {"paused"}

(***************************************************************************)
(* Tracked state and desired configuration                                 *)
(***************************************************************************)
\* C16 as stated: after a successful Create (against a remote service that
\* stores what it is sent) the tracked state equals the desired
\* configuration on every user-settable field, a description "" or absent
\* and tags empty or absent included, so that the next plan has no diff.
C16_AsStated ==
    Done("Create") =>
        \A f \in UserSettable(op.kind) : SameValue(f, model[f], plan[f])

\* C17 as stated: after a successful Update (against a remote service that
\* applies the fields of the PUT body and leaves the others alone) the
\* tracked state equals the desired configuration on every updatable field.
C17_AsStated ==
    Done("Update") =>
        \A f \in Updatable(op.kind) : SameValue(f, model[f], plan[f])

(***************************************************************************)
(* Tags                                                                    *)
(***************************************************************************)
\* A POST or PUT of a Check has been handed to doRequest.
CheckBodySent ==
    /\ op.kind = "check"
    /\ phase = "done"
    /\ op.name \in {"Create", "Update"}
    /\ Len(calls) >= 1

\* The plan declares no tags: the attribute is left out or is the empty set.
NoTagsDeclared == IsNull(plan.tags) \/ plan.tags = SetValueMust(<< >>)

\* C18 as stated: in every request body sent for a Check and in every
\* tracked state written for one, tags are a sorted sequence, and an empty or
\* absent declaration is an empty sequence, never an absent or null field.
C18_AsStated ==
    /\ (CheckBodySent /\ op.name = "Create")
          => (Has(reqBody, "tags") /\ IsSorted(reqBody["tags"]))
    /\ (tracked["check"] = "live")
          => (~IsNull(model.tags) /\ IsSorted(model.tags[1]))

\* C18 as amended: the tags of a request body and of a tracked state of a
\* Check are sorted wherever they are present, and they are present only
\* when there is at least one tag.  No declared tags is an absent key in
\* the body of Create and a null set in the state Create writes; never an
\* empty list.
C18_TagsSortedWherePresent ==
    /\ CheckBodySent
          => /\ Has(reqBody, "tags")
                  => (IsSorted(reqBody["tags"]) /\ Len(reqBody["tags"]) > 0)
             /\ (op.name = "Create" /\ NoTagsDeclared) => ~Has(reqBody, "tags")
    /\ (tracked["check"] = "live")
          => (~IsNull(model.tags)
                  => (IsSorted(model.tags[1]) /\ Len(model.tags[1]) > 0))
    /\ (Done("Create") /\ op.kind = "check" /\ NoTagsDeclared)
          => IsNull(model.tags)

\* A Check was created with the empty tag set declared: no tags key went
\* out and the tracked tags are null.
C18_Witness_Empty ==
    /\ Done("Create")
    /\ op.kind = "check"
    /\ plan.tags = SetValueMust(<< >>)
    /\ ~Has(reqBody, "tags")
    /\ IsNull(model.tags)

\* An Update changed the tags to two tags declared out of order: they went
\* out sorted and are tracked sorted.
C18_Witness_Sorted ==
    /\ Done("Update")
    /\ op.kind = "check"
    /\ plan.tags = SetValueMust(<< 2, 1 >>)
    /\ reqBody["tags"] = << 1, 2 >>
    /\ model.tags = SetValueMust(<< 1, 2 >>)

C18_Witness ==
    \/ C18_Witness_Empty
    \/ (C18_Witness_Sorted /\ IsNull(prior.tags))

\* The one sorted order of a set of tags.
SortedOrder(S) == CHOOSE s \in Orders(S) : IsSorted(s)

\* GetCheck has returned a Check.
CheckReturned == op.kind = "check" /\ phase = "done" /\ got # None

\* C19: whatever the order a configuration declares its tags in, the tags
\* in the body of Create's POST are those tags, sorted.  Whatever the order
\* the remote service lists a check's tags in, GetCheck returns them
\* sorted, and the tag set Read tracks is the same for every such order.
C19_TagOrder ==
    /\ (CheckBodySent /\ op.name = "Create" /\ ~NoTagsDeclared)
          => reqBody["tags"] = SortedOrder(Range(plan.tags[1]))
    /\ CheckReturned
          => got.Tags = Slice(SortedOrder(remote.tags))
    /\ (Done("Read") /\ op.kind = "check")
          => model.tags = IF remote.tags = {}
                            THEN Null
                            ELSE SetValueMust(SortedOrder(remote.tags))

\* Read of a Check whose tags the remote service listed out of order.
C19_Witness_Read ==
    /\ Done("Read")
    /\ op.kind = "check"
    /\ calls[1].resp.Tags = Slice(<< 2, 1 >>)
    /\ got.Tags = Slice(<< 1, 2 >>)
    /\ model.tags = SetValueMust(<< 1, 2 >>)

\* Create of a Check whose tags are declared out of order.
C19_Witness_Create ==
    /\ CheckBodySent
    /\ op.name = "Create"
    /\ plan.tags = SetValueMust(<< 2, 1 >>)
    /\ reqBody["tags"] = << 1, 2 >>

C19_Witness ==
    \/ C19_Witness_Read
    \/ (C19_Witness_Create /\ Len(calls) = 2)

\* How many times x occurs in s.
Count(x, s) == Cardinality({ i \in DOMAIN s : s[i] = x })

\* The elements of a slice, none for a nil one.
ElemsOrNone(t) == IF t = Nil THEN << >> ELSE Elems(t)

\* C20: normalizeTags(T) is never nil, is sorted and holds the elements of
\* T, each as often as T does; for a nil or empty T it is the empty non-nil
\* slice; and applying normalizeTags to its result returns that result.
C20_NormalizeTags ==
    /\ applied >= 1
          => /\ tagsOut # Nil
             /\ IsSorted(Elems(tagsOut))
             /\ Len(Elems(tagsOut)) = Len(ElemsOrNone(tagsIn))
             /\ \A x \in TagNames :
                    Count(x, Elems(tagsOut)) = Count(x, ElemsOrNone(tagsIn))
             /\ ElemsOrNone(tagsIn) = << >> => tagsOut = Slice(<< >>)
    /\ applied = 2 => tagsOut = normalizeTags(tagsIn)

\* normalizeTags was applied twice to an unsorted list with a repeated tag.
C20_Witness_Unsorted ==
    /\ applied = 2
    /\ tagsIn = Slice(<< 3, 1, 3 >>)
    /\ tagsOut = Slice(<< 1, 3, 3 >>)

\* normalizeTags was applied to the nil slice.
C20_Witness_Nil ==
    /\ applied = 1
    /\ tagsIn = Nil
    /\ tagsOut = Slice(<< >>)

C20_Witness ==
    \/ C20_Witness_Unsorted
    \/ (C20_Witness_Nil /\ tagsOut # tagsIn)

(***************************************************************************)
(* normalizeDescription                                                    *)
(***************************************************************************)
\* C21: normalizeDescription maps a pointer to the empty string to nil, nil
\* to nil, and a pointer to any non-empty string to itself unchanged.
C21_NormalizeDescription ==
    descApplied = 1 =>
        /\ descIn = Nil => descOut = Nil
        /\ (descIn # Nil /\ Deref(descIn) = "") => descOut = Nil
        /\ (descIn # Nil /\ Deref(descIn) # "") => descOut = descIn

C21_Witness_Empty ==
    descApplied = 1 /\ descIn = Ptr("") /\ descOut = Nil

C21_Witness_NonEmpty ==
    descApplied = 1 /\ descIn = Ptr(" ") /\ descOut = Ptr(" ")

\* A pointer to "" has been normalized to nil (the symmetric cases, nil
\* and a non-empty string, are C21_Witness_NonEmpty and the initial nil).
C21_Witness == C21_Witness_Empty

(***************************************************************************)
(* Create of a project without a description                               *)
(***************************************************************************)
\* Create of ProjectResource has returned for a plan whose description is
\* the empty string or is not declared.
CreatedWithoutDescription ==
    /\ Finished("Create")
    /\ op.kind = "project"
    /\ plan.description \in { Null, StringValue("") }

\* C22: creating a Project whose desired description is "" or not declared
\* sends a POST without a description, and when the read-back GET returns a
\* null description the tracked state has description null, not "".
C22_CreateNoDescription ==
    CreatedWithoutDescription =>
        /\ calls[1].method = "POST"
        /\ ~Has(reqBody, "description")
        /\ (Done("Create") /\ calls[2].resp.Description = Nil) =>
              /\ IsNull(model.description)
              /\ model.description # StringValue("")

C22_Witness_Empty ==
    /\ CreatedWithoutDescription
    /\ Done("Create")
    /\ plan.description = StringValue("")
    /\ calls[2].resp.Description = Nil
    /\ IsNull(model.description)

C22_Witness_Absent ==
    /\ CreatedWithoutDescription
    /\ Done("Create")
    /\ IsNull(plan.description)
    /\ IsNull(model.description)

\* The scenario Create Project(description = ""): created, read back with a
\* null description, tracked as unset.
C22_Witness == C22_Witness_Empty

(***************************************************************************)
(* Session context: the client's cached organization id and ping URL base  *)
(***************************************************************************)
\* A handler of CheckResource has written the tracked state.
CheckStateWritten ==
    /\ phase = "done"
    /\ op.kind = "check"
    /\ op.name \in {"Create", "Read", "Update"}
    /\ accRet = NoErr
    /\ diag = NoDiag

\* C23: in every tracked Check state written by Create, Read or Update,
\* ping_url is the client's cached ping URL base, "/", and the public_id of
\* that same state, whatever ping_url the prior state held.
C23_PingURL ==
    CheckStateWritten =>
        /\ model # None
        /\ ~IsNull(model.ping_url)
        /\ ~IsNull(model.public_id)
        /\ ValueString(model.ping_url)
             = client.pingURLBase \o << "/" >> \o << ValueString(model.public_id) >>

\* A Read under a client whose ping URL base differs from the one the
\* prior state was written with.
C23_Witness ==
    /\ CheckStateWritten
    /\ op.name = "Read"
    /\ prior # None
    /\ prior.ping_url # model.ping_url
    /\ prior.public_id = model.public_id
    /\ client.pingURLBase = << "https://ping.example" >>

\* C24: the organization id and the ping URL base of a client are fetched
\* by exactly one logical GET /api/v1/me during construction, and while the
\* client lives no Create, Read, Update or Delete, successful or failing,
\* requests /api/v1/me again or changes either cached value.
C24_SessionContext ==
    [][ /\ (client # Nil /\ client' # Nil) => client' = client
        /\ (HandlerReturns /\ op'.name = "New") =>
              /\ client = Nil
              /\ Len(calls') = 1
              /\ calls'[1].method = "GET"
              /\ calls'[1].path = << "/api/v1/me" >>
        /\ (HandlerReturns /\ op'.name # "New") =>
              /\ client # Nil
              /\ Len(calls') >= 1
              /\ \A i \in DOMAIN calls' : calls'[i].path # << "/api/v1/me" >> ]_vars

\* An Update with its PUT and its read-back GET, one of them failing or
\* none, under a client that New built from a /api/v1/me answer.
C24_Witness ==
    /\ Finished("Update")
    /\ Len(calls) = 2
    /\ client # Nil
    /\ client.orgID = "org1"
    /\ client.pingURLBase = << "https://ping.example" >>

\* New has returned after a GET /api/v1/me that succeeded with an empty
\* ping_url_base.
EmptyPingURLBase ==
    /\ Finished("New")
    /\ calls[1].err = NoErr
    /\ calls[1].resp.PingURLBase = << >>

\* C25: if GET /api/v1/me succeeds with an empty ping_url_base, construction
\* succeeds and the cached ping URL base is https://ping.pakyas.com.
C25_DefaultPingURLBase ==
    EmptyPingURLBase =>
        /\ accRet = NoErr
        /\ diag = NoDiag
        /\ client # Nil
        /\ client.orgID = calls[1].resp.OrganizationID
        /\ client.pingURLBase = << "https://ping.pakyas.com" >>

C25_Witness ==
    /\ EmptyPingURLBase
    /\ client # Nil
    /\ client.pingURLBase = << "https://ping.pakyas.com" >>

\* New has returned after a GET /api/v1/me that failed.
MeFailed == Finished("New") /\ calls[1].err # NoErr

\* C26: if the GET /api/v1/me fails terminally (a terminal 4xx, retries
\* exhausted, cancellation), New returns no client and an error wrapping
\* the request's error, and no handler ever runs its accessor without a
\* client holding the session context.
C26_ConstructionFails ==
    /\ MeFailed =>
          /\ client = Nil
          /\ accRet.type = "construct"
          /\ accRet.wraps = { calls[1].err }
          /\ diag # NoDiag
    /\ (phase = "done" /\ op.kind \in Kinds) =>
          /\ client # Nil
          /\ client.orgID # ""
          /\ client.pingURLBase # << >>

C26_Witness_Terminal == MeFailed /\ calls[1].err = APIError(401) /\ client = Nil

C26_Witness_Exhausted ==
    MeFailed /\ calls[1].err.type = "maxretries" /\ client = Nil

C26_Witness_Cancelled == MeFailed /\ calls[1].err = CtxErr /\ client = Nil

C26_Witness == C26_Witness_Terminal

(***************************************************************************)
(* Tracked state is written whole or not at all                            *)
(***************************************************************************)
\* Every attribute of state m is set, and from the one struct g.
WrittenTogether(k, m, g) ==
    /\ g # None
    /\ DOMAIN m = StateAttributes(k)
    /\ m.id = StringValue(g.ID)
    /\ m.name = StringValue(g.Name)
    /\ IsNull(m.description) = (g.Description = Nil)
    /\ ~IsNull(m.description) => ValueString(m.description) = Deref(g.Description)
    /\ ~IsNull(m.created_at)
    /\ k = "project" => m.org_id = StringValue(g.OrgID) /\ ~IsNull(m.updated_at)
    /\ k = "check" =>
          /\ m.project_id = StringValue(g.ProjectID)
          /\ m.slug = StringValue(g.Slug)
          /\ m.period_seconds = Int64Value(g.PeriodSeconds)
          /\ m.grace_seconds = Int64Value(g.GraceSeconds)
          /\ m.paused = BoolValue(g.Paused)
          /\ m.public_id = StringValue(g.PublicID)
          /\ m.status = StringValue(g.Status)
          /\ ~IsNull(m.ping_url)
          /\ IsNull(m.tags) = (SliceLen(g.Tags) = 0)
          /\ ~IsNull(m.tags) => m.tags = SetValueMust(Elems(g.Tags))

\* C27: a handler (Create, Read, Update, Delete of Project or Check) that
\* reports an error leaves the tracked state as it was; the tracked state
\* changes only when the handler reports no error, and then it is removed
\* or every attribute is written from the one resource the accessor
\* returned.
C27_NoPartialState ==
    [][ (HandlerReturns /\ op'.kind \in Kinds) =>
          /\ diag' # NoDiag => (model' = model /\ tracked' = tracked)
          /\ diag' = NoDiag =>
                \/ model' = None /\ tracked'[op'.kind] = "absent"
                \/ /\ WrittenTogether(op'.kind, model', got')
                   /\ tracked'[op'.kind] = "live" ]_vars

\* An Update whose PUT succeeded and whose read-back GET failed: the remote
\* resource has changed, the tracked state has not.
C27_Witness ==
    /\ Finished("Update")
    /\ Len(calls) = 2
    /\ calls[1].err = NoErr
    /\ calls[2].err # NoErr
    /\ diag # NoDiag
    /\ model = prior
    /\ model # None
    /\ plan.name # model.name

(***************************************************************************)
(* Error translation in the accessors                                      *)
(***************************************************************************)
\* The handler returns in this step with what its accessor returned, after a request whose
\* last attempt was answered with a status that ends it.
ReturnsAfterStatus ==
    /\ HandlerReturns
    /\ rpc = "returned"
    /\ lastResp.type = "resp"
    /\ lastResp.status >= 400
    /\ ret.type = "api"

\* C28: a 409 becomes the "already exists" error only when it answers the
\* POST of a Create; a 409 or any other status that ends a GET, PUT or
\* DELETE, and any other status that ends the POST, reaches the caller as
\* the APIError doRequest returned, unchanged.
C28_ConflictOnlyOnPost ==
    [][ /\ (HandlerReturns /\ accRet'.type = "conflict") =>
              /\ op.name = "Create"
              /\ method = "POST"
              /\ lastResp.type = "resp"
              /\ lastResp.status = 409
              /\ accRet'.kind = op.kind
        /\ (ReturnsAfterStatus /\ ~(method = "POST" /\ lastResp.status = 409)) =>
              /\ accRet' = ret
              /\ accRet'.type = "api"
              /\ accRet'.status = lastResp.status ]_vars

\* A 409 answered the PUT of an Update and came back as an APIError.
C28_Witness_Put ==
    /\ Finished("Update")
    /\ method = "PUT"
    /\ lastResp.type = "resp"
    /\ lastResp.status = 409
    /\ accRet.type = "api"
    /\ accRet.status = 409

\* A 409 answered the read-back GET of a Create and came back as an
\* APIError.
C28_Witness_ReadBack ==
    /\ Finished("Create")
    /\ method = "GET"
    /\ lastResp.type = "resp"
    /\ lastResp.status = 409
    /\ accRet.type = "api"
    /\ accRet.status = 409

C28_Witness_Delete ==
    /\ Finished("Delete")
    /\ lastResp.type = "resp"
    /\ lastResp.status = 409
    /\ accRet.type = "api"
    /\ accRet.status = 409

C28_Witness == C28_Witness_Put

(***************************************************************************)
(* project_id and slug of a Check                                          *)
(***************************************************************************)
\* C29: no PUT of a Check Update contains project_id or slug, and an Update
\* never runs for a plan whose project_id or slug differs from the state's:
\* such a change is a replacement, a Delete and a Create.
C29_NoProjectIdOrSlug ==
    (PutSent /\ op.kind = "check") =>
        /\ ~Has(reqBody, "project_id")
        /\ ~Has(reqBody, "slug")
        /\ DOMAIN reqBody \subseteq {"name", "period_seconds", "grace_seconds",
                                     "description", "tags", "paused"}
        /\ plan.project_id = prior.project_id
        /\ plan.slug = prior.slug

\* An Update of a check that lives in the second project under the second
\* slug: the PUT carries the changed attribute only.
C29_Witness ==
    /\ PutSent
    /\ op.kind = "check"
    /\ plan.project_id = StringValue("p2")
    /\ plan.slug = StringValue("s2")
    /\ reqBody # EmptyObject

(***************************************************************************)
(* Concurrent calls                                                        *)
(***************************************************************************)
\* The return value of a returned call follows from the answers to its own
\* attempts: the last one, and how many there were.
OwnOutcome(l) ==
    \/ /\ l.last.type = "resp"
       /\ l.last.status < 400
       /\ l.ret = NoErr
    \/ /\ TerminalStatus(l.last)
       /\ l.ret = APIError(l.last.status)
    \/ /\ RetryableStatus(l.last)
       /\ l.nAttempts = MaxRetries + 1
       /\ l.ret = APIError(l.last.status)
    \/ /\ NetworkFailure(l.last)
       /\ l.nAttempts = MaxRetries + 1
       /\ l.ret = MaxRetriesErr(ErrorOf(l.last))

\* C30: with several calls of doRequest running concurrently on one client,
\* under every interleaving each call makes at most MaxRetries + 1 = 6
\* attempts, a step of one call leaves the attempt counter, the last error
\* and the return value of every other call alone, a call goes on exactly
\* while its own last answer is retryable and its own attempts remain, and
\* what it returns is determined by the answers to its own attempts.
C30_PerCallRetryState ==
    [][ \A c \in Callers :
          /\ reqs'[c].nAttempts <= MaxRetries + 1
          /\ reqs'[c].attempt <= reqs'[c].nAttempts
          /\ reqs'[c] # reqs[c] => \A d \in Callers \ {c} : reqs'[d] = reqs[d]
          /\ reqs'[c].pc = "wait" =>
                /\ RetryableStatus(reqs'[c].last) \/ NetworkFailure(reqs'[c].last)
                /\ reqs'[c].nAttempts <= MaxRetries
                /\ reqs'[c].lastErr = ErrorOf(reqs'[c].last)
          /\ reqs'[c].pc = "returned" => OwnOutcome(reqs'[c]) ]_vars

\* One call has used up its six attempts on network failures while the
\* other, started meanwhile, succeeded at its second attempt.
C30_Witness ==
    /\ reqs["c1"].pc = "returned"
    /\ reqs["c1"].nAttempts = MaxRetries + 1
    /\ reqs["c1"].ret.type = "maxretries"
    /\ reqs["c2"].pc = "returned"
    /\ reqs["c2"].nAttempts = 2
    /\ reqs["c2"].ret = NoErr

\* Both calls are between attempts at once, each with its own counter.
C30_Witness_Interleaved ==
    /\ reqs["c1"].pc = "wait"
    /\ reqs["c1"].attempt = 4
    /\ reqs["c2"].pc = "inflight"
    /\ reqs["c2"].attempt = 1

(***************************************************************************)
(* Import                                                                  *)
(***************************************************************************)
\* The tracked states a successful Create writes for the remote resource r.
CreateWrites(k, r) ==
    { MapToModel(k, GetResult(k, resp)) : resp \in GetResponses(k, r) }

\* Read has returned, called with the state ImportState seeded.
ImportedRead ==
    /\ Finished("Read")
    /\ prior # None
    /\ prior = ImportedState(op.kind, ValueString(prior.id))

\* C31: ImportState leaves a state that holds the supplied id and nothing
\* else, and makes no request.  The Read that follows, when its GET
\* succeeds, writes the one state a successful Create writes for the same
\* remote resource under the same client, and when its GET is answered 404
\* it leaves the resource absent without an error.
C31_ImportThenRead ==
    /\ phase = "imported" =>
          /\ op.name = "Import"
          /\ calls = << >>
          /\ reqBody = EmptyObject
          /\ DOMAIN model = StateAttributes(op.kind)
          /\ ~IsNull(model.id)
          /\ ValueString(model.id) \in ImportIDs
          /\ \A f \in DOMAIN model : f # "id" => IsNull(model[f])
    /\ Done("Create") =>
          remote # None /\ CreateWrites(op.kind, remote) = {model}
    /\ (ImportedRead /\ accRet = NoErr) =>
          /\ diag = NoDiag
          /\ remote # None
          /\ CreateWrites(op.kind, remote) = {model}
    /\ (ImportedRead /\ IsNotFound(accRet)) =>
          /\ diag = NoDiag
          /\ model = None
          /\ tracked[op.kind] = "absent"

\* A check with a description and two tags, imported and read.
C31_Witness_Populated ==
    /\ ImportedRead
    /\ accRet = NoErr
    /\ op.kind = "check"
    /\ ~IsNull(model.tags)
    /\ Len(model.tags[1]) = 2
    /\ model.paused = BoolValue(TRUE)

\* An imported id the remote service does not know.
C31_Witness_NotFound ==
    /\ ImportedRead
    /\ IsNotFound(accRet)
    /\ model = None

C31_Witness == C31_Witness_Populated

(***************************************************************************)
(* Retries of a POST                                                       *)
(***************************************************************************)
\* C32 (as stated): one call of CreateProject / CreateCheck causes at most
\* one resource to be created on the remote service, whatever attempts of
\* its POST were processed by the service with their answers lost and then
\* retried.
C32_AsStated == server.created <= 1

(***************************************************************************)
(* One mapping from the remote representation to tracked state             *)
(***************************************************************************)
\* Create, Read or Update of a resource has written the tracked state.
StateWritten ==
    /\ phase = "done"
    /\ op.kind \in Kinds
    /\ op.name \in {"Create", "Read", "Update"}
    /\ accRet = NoErr
    /\ diag = NoDiag

\* A string pointer of the response as an attribute value.
OptionalString(p) == IF p = Nil THEN Null ELSE StringValue(Deref(p))

\* The tracked state that answers to the response resp of a GET under the
\* ping URL base: every attribute from resp, the tags sorted, none or no
\* tags as null.
FromResponse(k, resp, base) ==
    IF k = "project"
      THEN [ id |-> StringValue(resp.ID),
             org_id |-> StringValue(resp.OrgID),
             name |-> StringValue(resp.Name),
             description |-> OptionalString(resp.Description),
             created_at |-> StringValue(<< "rfc3339", resp.CreatedAt.instant >>),
             updated_at |-> StringValue(<< "rfc3339", resp.UpdatedAt.instant >>) ]
      ELSE [ id |-> StringValue(resp.ID),
             project_id |-> StringValue(resp.ProjectID),
             name |-> StringValue(resp.Name),
             slug |-> StringValue(resp.Slug),
             period_seconds |-> Int64Value(resp.PeriodSeconds),
             grace_seconds |-> Int64Value(resp.GraceSeconds),
             description |-> OptionalString(resp.Description),
             tags |-> IF SliceLen(resp.Tags) = 0
                        THEN Null
                        ELSE SetValueMust(SortedOrder(Range(Elems(resp.Tags)))),
             paused |-> BoolValue(resp.Paused),
             public_id |-> StringValue(resp.PublicID),
             ping_url |-> StringValue(base \o << "/", resp.PublicID >>),
             status |-> StringValue(resp.Status),
             created_at |-> StringValue(<< "rfc3339", resp.CreatedAt.instant >>) ]

\* C33: the tracked state a successful Create, Read or Update writes is, in
\* all three, the same function of the response to the operation's last
\* request, a GET, and of the client's cached ping URL base.  It has every
\* attribute of the model, and none of them comes from the plan or from the
\* prior state.
C33_OneMapping ==
    StateWritten =>
        /\ Len(calls) >= 1
        /\ calls[Len(calls)].method = "GET"
        /\ calls[Len(calls)].err = NoErr
        /\ DOMAIN model = StateAttributes(op.kind)
        /\ model = FromResponse(op.kind, calls[Len(calls)].resp, client.pingURLBase)

\* A Create whose plan sets description to the empty string: the state has
\* the null description of the response, not the plan's value.
C33_Witness_Plan ==
    /\ StateWritten
    /\ op.name = "Create"
    /\ plan.description = StringValue("")
    /\ IsNull(model.description)

\* A Read that finds the name changed remotely: the state has the name of
\* the response, not the prior one.
C33_Witness_Prior ==
    /\ StateWritten
    /\ op.name = "Read"
    /\ ~IsNull(prior.name)
    /\ prior.name # model.name

\* An Update whose plan clears the tags with an empty list: the state has
\* null tags.
C33_Witness_Update ==
    /\ StateWritten
    /\ op.name = "Update"
    /\ op.kind = "check"
    /\ plan.tags = SetValueMust(<< >>)
    /\ IsNull(model.tags)

C33_Witness == C33_Witness_Plan

(***************************************************************************)
(* A Create whose read-back fails                                          *)
(***************************************************************************)
\* Create has returned after a POST that succeeded and a read-back GET that
\* failed.
CreateReadBackFailed ==
    /\ Finished("Create")
    /\ Len(calls) >= 2
    /\ calls[1].method = "POST"
    /\ calls[1].err = NoErr
    /\ calls[2].method = "GET"
    /\ calls[2].err # NoErr

\* C34: a Create whose POST succeeded and whose read-back GET failed reports
\* "Error Creating" with the GET's error, tracks nothing and sends no
\* DELETE: the GET is its last request.  Unless the GET was answered 404,
\* the resource the POST created is still there, tracked by nobody.
C34_CreateLeavesOrphan ==
    CreateReadBackFailed =>
        /\ accRet = calls[2].err
        /\ diag = Diag("Error Creating", op.kind, calls[2].err)
        /\ model = None
        /\ tracked[op.kind] = "absent"
        /\ Len(calls) = 2
        /\ \A i \in DOMAIN calls : calls[i].method # "DELETE"
        /\ ~IsNotFound(calls[2].err) =>
              /\ remote # None
              /\ remote.id = calls[1].resp.ID
              /\ remote = ServerCreate(op.kind, reqBody)

\* The read-back ran out of retries: the check exists remotely and is not
\* tracked.
C34_Witness ==
    /\ CreateReadBackFailed
    /\ op.kind = "check"
    /\ calls[2].err = MaxRetriesErr(NetErr("io"))
    /\ remote # None
    /\ model = None
    /\ tracked["check"] = "absent"

(***************************************************************************)
(* Which attempt the returned error is from                                *)
(***************************************************************************)
\* What doRequest can return when the attempt that ended with o was its
\* last: nil or a parse error after a 2xx, the APIError of a status >= 400,
\* the wrapped error of a network-level failure.
StemsFrom(o) ==
    CASE o.type = "resp" /\ o.status < 400 -> {NoErr, ParseErr}
      [] o.type = "resp" /\ o.status >= 400 -> {APIError(o.status)}
      [] NetworkFailure(o) -> {MaxRetriesErr(ErrorOf(o))}
      [] OTHER -> {}

\* C35 (as stated): what a logical request returns always stems from the
\* last attempt that was made.
C35_AsStated == rpc = "returned" => ret \in StemsFrom(lastResp)

\* C35 (as amended): what a logical request returns stems from the last
\* attempt that was made (a terminal 4xx after earlier retryable failures is
\* returned as the APIError of that 4xx, and exhausted retries wrap the error
\* of the sixth attempt, never an earlier one), unless the caller's context
\* is cancelled during a backoff wait: then the context's error is returned
\* and the error of the last attempt is dropped.  No attempt's error but the
\* last one's is ever returned.
C35_LastAttemptOrCancelled ==
    rpc = "returned" =>
        \/ ret \in StemsFrom(lastResp)
        \/ /\ ret = CtxErr
           /\ cancelled
           /\ nAttempts >= 1
           /\ nAttempts <= MaxRetries
           /\ (RetryableStatus(lastResp) \/ NetworkFailure(lastResp))

\* A 404 to the third attempt, after two attempts that were retried.
C35_Witness_Terminal ==
    /\ rpc = "returned"
    /\ nAttempts = 3
    /\ lastResp.type = "resp"
    /\ lastResp.status = 404
    /\ ret = APIError(404)

\* The sixth attempt's body could not be read.
C35_Witness_Exhausted ==
    /\ rpc = "returned"
    /\ nAttempts = MaxRetries + 1
    /\ lastResp.type = "readerr"
    /\ ret = MaxRetriesErr(ReadErr)

\* Cancelled in the wait that followed a 503.
C35_Witness_Cancelled ==
    /\ rpc = "returned"
    /\ ret = CtxErr
    /\ lastResp.type = "resp"
    /\ lastResp.status = 503

C35_Witness == C35_Witness_Terminal

(***************************************************************************)
(* Read removes a resource only on 404                                     *)
(***************************************************************************)
\* Read returns in this step.
ReadReturns == HandlerReturns /\ op'.name = "Read"

\* C36: Read removes the resource from tracked state exactly when the last
\* attempt of its GET was answered 404.  When the GET ends in any other
\* failure (a network failure or exhausted retries, a 429 or 5xx, a 401 or
\* 403, a cancellation) the tracked state stays as it was and the
\* diagnostic "Error Reading" carries the error.
C36_ReadRemovesOnlyOn404 ==
    [][ ReadReturns =>
          /\ (tracked'[op'.kind] = "absent") <=> NotFoundAnswer'
          /\ NotFoundAnswer' => (accRet' = APIError(404) /\ diag' = NoDiag)
          /\ ~NotFoundAnswer' =>
                /\ tracked' = tracked
                /\ accRet' = NoErr => diag' = NoDiag
                /\ accRet' # NoErr => diag' = Diag("Error Reading", op'.kind, accRet') ]_vars

\* Read has returned an error that is not a 404; the resource is tracked.
ReadFailed ==
    /\ Finished("Read")
    /\ accRet # NoErr
    /\ diag # NoDiag
    /\ tracked[op.kind] = "live"

C36_Witness_Network == ReadFailed /\ accRet = MaxRetriesErr(NetErr("io"))

C36_Witness_Unavailable ==
    ReadFailed /\ accRet = APIError(503) /\ nAttempts = MaxRetries + 1

C36_Witness_TooMany ==
    ReadFailed /\ accRet = APIError(429) /\ nAttempts = MaxRetries + 1

C36_Witness_Unauthorized == ReadFailed /\ accRet = APIError(401)

C36_Witness_Forbidden == ReadFailed /\ accRet = APIError(403) /\ nAttempts = 2

C36_Witness_Cancelled == ReadFailed /\ accRet = CtxErr

C36_Witness == C36_Witness_Forbidden

(***************************************************************************)
(* Cancellation                                                            *)
(***************************************************************************)
\* C37: once the caller's context is cancelled, doRequest puts no further
\* request in flight.  The attempt in flight, when the cancellation ends it,
\* is recorded as a network error; before the sixth attempt the loop goes to
\* its backoff wait and returns ctx.Err() from there, without waiting the
\* delay out and without another call of httpClient.Do; the sixth attempt
\* ends the loop, and "max retries exceeded" wrapping the network error of
\* the cancelled attempt is returned.  A call of httpClient.Do made with
\* the context already done fails at once the same way.
C37_NoAttemptAfterCancel ==
    [][ /\ cancelled => rpc' # "inflight" \/ rpc = "inflight"
        /\ (cancelled /\ rpc \in {"inflight", "wait"}) =>
              (nAttempts' = nAttempts /\ sent' = sent)
        /\ (cancelled /\ rpc = "send") => lastResp' = CtxOutcome
        /\ (cancelled /\ rpc \in {"send", "inflight"} /\ lastResp' = CtxOutcome) =>
              /\ lastErr' = NetErr("ctx")
              /\ attempt < MaxRetries => (rpc' = "wait" /\ ret' = ret)
              /\ attempt = MaxRetries =>
                    (rpc' = "returned" /\ ret' = MaxRetriesErr(NetErr("ctx")))
        /\ (cancelled /\ rpc = "wait") =>
              (rpc' = "returned" /\ ret' = CtxErr /\ nWaits' = nWaits)
      ]_vars

\* The sixth attempt was in flight when the context was cancelled.
C37_Witness_Sixth ==
    /\ rpc = "returned"
    /\ cancelled
    /\ nAttempts = MaxRetries + 1
    /\ nWaits = MaxRetries
    /\ lastResp = CtxOutcome
    /\ ret = MaxRetriesErr(NetErr("ctx"))

\* The third attempt was in flight when the context was cancelled: ctx.Err()
\* from the wait that followed, no fourth attempt.
C37_Witness_Third ==
    /\ rpc = "returned"
    /\ cancelled
    /\ nAttempts = 3
    /\ nWaits = 2
    /\ lastResp = CtxOutcome
    /\ lastErr = NetErr("ctx")
    /\ ret = CtxErr

C37_Witness == C37_Witness_Sixth

(***************************************************************************)
(* The cached ping URL base                                                *)
(***************************************************************************)
\* C38 (as stated): after every successful construction of a client,
\* whatever ping_url_base /api/v1/me answered with (values made only of
\* slashes or ending in several slashes included), the cached ping URL base
\* is not empty and does not end with a slash.
C38_AsStated ==
    client # Nil =>
        /\ client.pingURLBase # << >>
        /\ client.pingURLBase[Len(client.pingURLBase)] # "/"
====
